---- MODULE Spec2Model ----
(***************************************************************************)
(* Model of the video-generation core of server.cjs: the POST              *)
(* /generate-video handler (field normalisation, validation, provider      *)
(* dispatch, response), generateVeoVideo (authentication, image check,     *)
(* submit, bounded poll loop, artifact extraction), generateHedraVideo,    *)
(* pollHedraVideo and generateKlingVideo.                                  *)
(*                                                                         *)
(* JavaScript strings are sequences of one-character strings, so that      *)
(* split, replace, startsWith and template concatenation are computed on   *)
(* characters.  A JavaScript value is a record [t, s]: t is "undefined",   *)
(* "null" or "string" and s the characters of a string (<<>> otherwise).   *)
(***************************************************************************)
EXTENDS Integers, Sequences, FiniteSets, TLC

VARIABLES
    env,        \* process-wide configuration: SERVICE_ACCOUNT, VEO_ACCESS_TOKEN, KLING_API_KEY
    live,       \* the inbound calls of this behaviour
    body,       \* body[r]: req.body of call r
    pc,         \* pc[r]: where call r's handler is suspended
    provider,   \* provider[r]: the branch the dispatch took ("none" before it)
    operationName, \* operationName[r]: generateVeoVideo's const operationName
    attempts,   \* attempts[r]: generateVeoVideo's let attempts
    pollData,   \* pollData[r]: the body of the last Veo poll response parsed
    hedraI,     \* hedraI[r]: pollHedraVideo's loop variable i
    inflight,   \* inflight[r]: remote calls issued and not yet answered
    sent,       \* sent[r][k]: number of remote calls of kind k issued so far
    final,      \* final[r]: finalScriptText, finalDirection, finalReferenceImage of the handler
    submitLog,  \* submitLog[r]: the Veo submit responses received so far, in order
    pollLog,    \* pollLog[r]: what each Veo poll response received so far was, in order
    statusLog,  \* statusLog[r]: what each Hedra status response received so far was, in order
    answerLog,  \* answerLog[r]: the answers to the storage fetches and Hedra create calls so far
    responses   \* responses[r]: what res.json was called with, in order

vars == <<env, live, body, pc, provider, operationName, attempts, pollData,
          hedraI, inflight, sent, final, submitLog, pollLog, statusLog, answerLog, responses>>

(***************************************************************************)
(* JavaScript values and strings                                           *)
(***************************************************************************)
Undefined == [t |-> "undefined", s |-> <<>>]

Null == [t |-> "null", s |-> <<>>]

Str(chars) == [t |-> "string", s |-> chars]

\* JavaScript truthiness of undefined, null and strings
Truthy(v) == v.t = "string" /\ v.s # <<>>

\* a || b
Or(a, b) == IF Truthy(a) THEN a ELSE b

Repeat(c, n) == [k \in 1..n |-> c]

\* s.startsWith(p)
StartsWith(s, p) == Len(s) >= Len(p) /\ SubSeq(s, 1, Len(p)) = p

\* s.indexOf(sep) + 1, and 0 when sep does not occur in s
IndexOf(s, sep) ==
    LET hits == {k \in 1..(Len(s) - Len(sep) + 1) : SubSeq(s, k, k + Len(sep) - 1) = sep}
    IN  IF hits = {} THEN 0 ELSE CHOOSE k \in hits : \A j \in hits : k <= j

\* s.split(sep) for a non-empty separator: the parts between successive,
\* non-overlapping occurrences of sep found from the left
RECURSIVE Split(_, _)
Split(s, sep) ==
    LET k == IndexOf(s, sep)
    IN  IF k = 0 THEN <<s>>
        ELSE <<SubSeq(s, 1, k - 1)>> \o Split(SubSeq(s, k + Len(sep), Len(s)), sep)

\* s.split(sep)[n] with n counted from 0: undefined past the last part
SplitAt(s, sep, n) ==
    LET parts == Split(s, sep)
    IN  IF n + 1 <= Len(parts) THEN Str(parts[n + 1]) ELSE Undefined

\* the characters the regular expression class \w matches
WordChars ==
    {"A", "B", "C", "D", "E", "F", "G", "H", "I", "J", "K", "L", "M", "N", "O", "P",
     "Q", "R", "S", "T", "U", "V", "W", "X", "Y", "Z", "a", "b", "c", "d", "e", "f",
     "g", "h", "i", "j", "k", "l", "m", "n", "o", "p", "q", "r", "s", "t", "u", "v",
     "w", "x", "y", "z", "0", "1", "2", "3", "4", "5", "6", "7", "8", "9", "_"}

\* length of the longest run of \w characters of s that starts at position k
RECURSIVE WordRun(_, _)
WordRun(s, k) ==
    IF k <= Len(s) /\ s[k] \in WordChars THEN 1 + WordRun(s, k + 1) ELSE 0

DataImagePrefix == <<"d", "a", "t", "a", ":", "i", "m", "a", "g", "e", "/">>

Base64Marker == <<";", "b", "a", "s", "e", "6", "4", ",">>

\* length of the match of /^data:image\/\w+;base64,/ in s, 0 when it does not match
ImagePrefixLen(s) ==
    IF ~StartsWith(s, DataImagePrefix) THEN 0
    ELSE LET w == WordRun(s, Len(DataImagePrefix) + 1)
             rest == SubSeq(s, Len(DataImagePrefix) + w + 1, Len(s))
         IN  IF w >= 1 /\ StartsWith(rest, Base64Marker)
             THEN Len(DataImagePrefix) + w + Len(Base64Marker)
             ELSE 0

\* mimeMatch ? mimeMatch[1] : 'image/png'
MimeType(referenceImage) ==
    IF ImagePrefixLen(referenceImage) = 0
    THEN <<"i", "m", "a", "g", "e", "/", "p", "n", "g">>
    ELSE SubSeq(referenceImage, 6, ImagePrefixLen(referenceImage) - Len(Base64Marker))

\* referenceImage.replace(/^data:image\/\w+;base64,/, '')
StripImagePrefix(referenceImage) ==
    SubSeq(referenceImage, ImagePrefixLen(referenceImage) + 1, Len(referenceImage))

(***************************************************************************)
(* POST /generate-video: mapping of the two field conventions              *)
(***************************************************************************)
ScriptMarker == <<".", " ", "S", "c", "r", "i", "p", "t", ":", " ", "\"">>

StyleMarker == <<"\"", ".", " ", "S", "t", "y", "l", "e", ":">>

\* ScriptFromPrompt without the cut at the style marker
ScriptFromPromptUncut(prompt) ==
    IF ~Truthy(prompt) THEN Null ELSE SplitAt(prompt.s, ScriptMarker, 1)

\* prompt ? prompt.split('. Script: "')[1]?.split('". Style:')[0] : null
ScriptFromPrompt(prompt) ==
    IF ~Truthy(prompt) THEN Null
    ELSE LET after == SplitAt(prompt.s, ScriptMarker, 1)
         IN  IF after.t = "undefined" THEN Undefined
             ELSE SplitAt(after.s, StyleMarker, 0)

\* prompt ? prompt.split('. Script: "')[0] : null
DirectionFromPrompt(prompt) ==
    IF ~Truthy(prompt) THEN Null ELSE SplitAt(prompt.s, ScriptMarker, 0)

finalScriptText(b) ==
    Or(Or(Or(b.scriptText, ScriptFromPrompt(b.prompt)), b.prompt), Str(<<>>))

finalDirection(b) ==
    Or(Or(b.direction, DirectionFromPrompt(b.prompt)), Str(<<>>))

finalReferenceImage(b) == Or(b.referenceImage, b.imageUrl)

\* the three constants of lines 345-347
Final(b) ==
    [scriptText |-> finalScriptText(b), direction |-> finalDirection(b),
     referenceImage |-> finalReferenceImage(b)]

NoFinal == [scriptText |-> Undefined, direction |-> Undefined, referenceImage |-> Undefined]

(***************************************************************************)
(* Program constants                                                       *)
(***************************************************************************)
\* const maxAttempts = 60 of generateVeoVideo
maxAttempts == 60

\* maxAttempts = 30, the default parameter of pollHedraVideo
hedraMaxAttempts == 30

\* base64Data.length < 100 of generateVeoVideo
MinImageLen == 100

(***************************************************************************)
(* Inputs: request bodies, configuration, remote responses                 *)
(***************************************************************************)
\* number of pieces a legacy prompt is concatenated from (SpecNorm)
MaxPieces == 3

Hi == <<"H", "i">>

ImgTiny == DataImagePrefix \o <<"p", "n", "g">> \o Base64Marker \o Repeat("A", 4)

ImgPng == DataImagePrefix \o <<"p", "n", "g">> \o Base64Marker \o Repeat("A", MinImageLen)

ImgShort == DataImagePrefix \o <<"j", "p", "e", "g">> \o Base64Marker \o Repeat("A", MinImageLen - 1)

ImgRaw == Repeat("A", MinImageLen)

LegacyPrompt == <<"D">> \o ScriptMarker \o Hi \o StyleMarker \o <<" ", "U", ".">>

Veo == Str(<<"v", "e", "o">>)

Hedra == Str(<<"h", "e", "d", "r", "a">>)

Kling == Str(<<"k", "l", "i", "n", "g">>)

Providers == {Undefined, Veo, Hedra, Kling}

Body(st, dir, img, pr, url, prov, acc) ==
    [scriptText |-> st, direction |-> dir, referenceImage |-> img, prompt |-> pr,
     imageUrl |-> url, provider |-> prov, voiceAccent |-> acc]

\* bodies in the canonical convention, bodies in the legacy convention, and
\* a few that mix them or carry other values
Bodies ==
    {Body(st, Undefined, img, Undefined, Undefined, prov, Undefined) :
        st \in {Undefined, Str(Hi)},
        img \in {Undefined, Str(ImgTiny), Str(ImgPng)},
        prov \in Providers}
    \cup
    {Body(Undefined, Undefined, Undefined, pr, url, prov, Undefined) :
        pr \in {Undefined, Str(LegacyPrompt), Str(Hi)},
        url \in {Undefined, Str(ImgRaw)},
        prov \in Providers}
    \cup
    {Body(Str(<<>>), Null, Null, Str(Hi), Str(ImgShort), Veo, Undefined),
     Body(Str(Hi), Str(<<"D">>), Str(ImgPng), Str(LegacyPrompt), Str(ImgRaw), Undefined, Null),
     Body(Str(Hi), Undefined, Str(ImgTiny), Undefined, Undefined, Str(<<"H", "e", "d", "r", "a">>), Undefined)}

Envs ==
    {[serviceAccount |-> TRUE, accessToken |-> FALSE, klingApiKey |-> FALSE],
     [serviceAccount |-> FALSE, accessToken |-> TRUE, klingApiKey |-> TRUE],
     [serviceAccount |-> FALSE, accessToken |-> FALSE, klingApiKey |-> FALSE]}

Kinds ==
    {"auth.token", "veo.submit", "veo.sleep", "veo.poll", "gcs.fetch",
     "hedra.character", "hedra.tts", "hedra.video", "hedra.status", "hedra.sleep"}

\* an operation name a submit may return
Op1 == <<"o", "p", "1">>

\* another one
Op2 == <<"o", "p", "2">>

\* what the submit call can come back with: a rejected fetch, a non-success
\* status, or a success status with a body {name, error?}
SubmitResponses ==
    {[throws |-> TRUE, ok |-> FALSE, error |-> FALSE, name |-> Undefined],
     [throws |-> FALSE, ok |-> FALSE, error |-> FALSE, name |-> Undefined]}
    \cup
    {[throws |-> FALSE, ok |-> TRUE, error |-> e, name |-> n] :
        e \in BOOLEAN, n \in {Undefined, Str(<<>>), Str(Op1)}}

Zm9v == <<"Z", "m", "9", "v">>

GcsUri == <<"g", "s", ":", "/", "/", "b", "/", "v">>

\* videos / predictions: absent, or an array of results {gcsUri?, bytesBase64Encoded?}
NoArray == [present |-> FALSE, items |-> <<>>]

Array(items) == [present |-> TRUE, items |-> items]

Results(payloads) ==
    {[gcsUri |-> u, bytesBase64Encoded |-> p] :
        u \in {Undefined, Str(GcsUri)}, p \in payloads}

Arrays(payloads) ==
    {NoArray, Array(<<>>)} \cup {Array(<<x>>) : x \in Results(payloads)}

NoResponse == [present |-> FALSE, videos |-> NoArray, predictions |-> NoArray]

\* the body of a poll response: {done, error?, response?}
PollBodies ==
    {[done |-> FALSE, error |-> e, response |-> NoResponse] : e \in BOOLEAN}
    \cup
    {[done |-> TRUE, error |-> FALSE, response |-> NoResponse]}
    \cup
    {[done |-> TRUE, error |-> FALSE,
      response |-> [present |-> TRUE, videos |-> v, predictions |-> p]] :
        v \in Arrays({Undefined, Str(Zm9v), Str(<<"a", ",", "b">>)}),
        p \in Arrays({Undefined, Str(Zm9v)})}
    \cup
    {[done |-> TRUE, error |-> TRUE, response |-> rsp] :
        rsp \in {NoResponse,
                 [present |-> TRUE,
                  videos |-> Array(<<[gcsUri |-> Str(GcsUri), bytesBase64Encoded |-> Str(Zm9v)]>>),
                  predictions |-> NoArray]}}

NoPollData == [done |-> FALSE, error |-> FALSE, response |-> NoResponse]

\* what a poll call can come back with
PollResponses ==
    {[throws |-> TRUE, ok |-> FALSE, data |-> NoPollData],
     [throws |-> FALSE, ok |-> FALSE, data |-> NoPollData]}
    \cup
    {[throws |-> FALSE, ok |-> TRUE, data |-> d] : d \in PollBodies}

\* what the GET of a storage URI can come back with; buffer is the bytes read
FetchResponses ==
    {[throws |-> TRUE, ok |-> FALSE, buffer |-> <<>>],
     [throws |-> FALSE, ok |-> FALSE, buffer |-> <<>>]}
    \cup
    {[throws |-> FALSE, ok |-> TRUE, buffer |-> b] :
        b \in {<<>>, <<102, 111, 111>>, <<255>>, <<0, 16>>}}

(***************************************************************************)
(* Results and responses                                                   *)
(***************************************************************************)
Base64Alphabet ==
    <<"A", "B", "C", "D", "E", "F", "G", "H", "I", "J", "K", "L", "M", "N", "O", "P",
      "Q", "R", "S", "T", "U", "V", "W", "X", "Y", "Z", "a", "b", "c", "d", "e", "f",
      "g", "h", "i", "j", "k", "l", "m", "n", "o", "p", "q", "r", "s", "t", "u", "v",
      "w", "x", "y", "z", "0", "1", "2", "3", "4", "5", "6", "7", "8", "9", "+", "/">>

B64Char(n) == Base64Alphabet[n + 1]

\* videoBuffer.toString('base64'): three bytes give four characters, and a
\* last group of one or two bytes is padded with '='
RECURSIVE Base64(_)
Base64(bytes) ==
    IF Len(bytes) = 0 THEN <<>>
    ELSE IF Len(bytes) = 1 THEN
        LET n == bytes[1] * 65536
        IN  <<B64Char(n \div 262144), B64Char((n \div 4096) % 64), "=", "=">>
    ELSE IF Len(bytes) = 2 THEN
        LET n == bytes[1] * 65536 + bytes[2] * 256
        IN  <<B64Char(n \div 262144), B64Char((n \div 4096) % 64),
              B64Char((n \div 64) % 64), "=">>
    ELSE
        LET n == bytes[1] * 65536 + bytes[2] * 256 + bytes[3]
        IN  <<B64Char(n \div 262144), B64Char((n \div 4096) % 64),
              B64Char((n \div 64) % 64), B64Char(n % 64)>>
            \o Base64(SubSeq(bytes, 4, Len(bytes)))

VideoDataPrefix ==
    <<"d", "a", "t", "a", ":", "v", "i", "d", "e", "o", "/", "m", "p", "4", ";",
      "b", "a", "s", "e", "6", "4", ",">>

\* `data:video/mp4;base64,${payload}`
DataUri(payload) == Str(VideoDataPrefix \o payload)

\* videoBase64 taking the part before the comma (split(',')[0])
videoBase64WrongPart(videoResult) ==
    IF StartsWith(videoResult.s, <<"d", "a", "t", "a", ":">>)
    THEN SplitAt(videoResult.s, <<",">>, 0)
    ELSE Null

\* videoResult.startsWith('data:') ? videoResult.split(',')[1] : null
videoBase64(videoResult) ==
    IF StartsWith(videoResult.s, <<"d", "a", "t", "a", ":">>)
    THEN SplitAt(videoResult.s, <<",">>, 1)
    ELSE Null

\* provider || 'veo'
ProviderOrVeo(b) == Or(b.provider, Veo)

\* res.json({success: true, videoUrl, videoBase64, provider, requestId});
\* a requestId of 0 stands for a response without that field
SuccessResponse(r, videoResult) ==
    [status |-> 200, success |-> TRUE, error |-> "", detail |-> "",
     videoUrl |-> videoResult, videoBase64 |-> videoBase64(videoResult),
     provider |-> ProviderOrVeo(body[r]), requestId |-> r]

\* res.status(500).json({error: error.message, details, requestId}); message
\* is the fixed text of error.message and detail what is interpolated into it
ErrorResponse(r, message, detail) ==
    [status |-> 500, success |-> FALSE, error |-> message, detail |-> detail,
     videoUrl |-> Undefined, videoBase64 |-> Undefined,
     provider |-> Undefined, requestId |-> r]

\* res.status(400).json({error})
MissingFieldResponse(message) ==
    [status |-> 400, success |-> FALSE, error |-> message, detail |-> "",
     videoUrl |-> Undefined, videoBase64 |-> Undefined,
     provider |-> Undefined, requestId |-> 0]

(***************************************************************************)
(* Steps.  Between two awaits a handler runs without interruption; what a  *)
(* run of it ends with is an outcome: a response to the caller (the        *)
(* handler returned or threw), a remote call or timer it now awaits, or a  *)
(* jump to another point of the same function.                             *)
(***************************************************************************)
Respond(response) == [kind |-> "respond", response |-> response]

\* throw new Error(message + detail), caught at line 393
Throw(r, message, detail) == Respond(ErrorResponse(r, message, detail))

\* return videoResult, answered at line 385
Return(r, videoResult) == Respond(SuccessResponse(r, videoResult))

\* await of a remote call (or timer) of kind call; the function resumes at `to`
Call(call, arg, to) == [kind |-> "call", call |-> call, arg |-> arg, to |-> to]

Goto(to) == [kind |-> "goto", to |-> to]

Awaiting(r, k) == \E n \in 1..Len(inflight[r]) : inflight[r][n].kind = k

\* the calls in flight once the oldest one of kind k has been answered
Answered(q, k) ==
    LET n == CHOOSE n \in 1..Len(q) :
                 q[n].kind = k /\ \A m \in 1..(n - 1) : q[m].kind # k
    IN  SubSeq(q, 1, n - 1) \o SubSeq(q, n + 1, Len(q))

\* the effect of an outcome on call r, q being its calls still in flight
Step(r, out, q) ==
    /\ pc' = [pc EXCEPT ![r] = IF out.kind = "respond" THEN "responded" ELSE out.to]
    /\ responses' = [responses EXCEPT ![r] =
                        IF out.kind = "respond" THEN Append(@, out.response) ELSE @]
    /\ inflight' = [inflight EXCEPT ![r] =
                        IF out.kind = "call"
                        THEN Append(q, [kind |-> out.call, arg |-> out.arg])
                        ELSE q]
    /\ sent' = [sent EXCEPT ![r] =
                        IF out.kind = "call"
                        THEN [@ EXCEPT ![out.call] = @ + 1]
                        ELSE @]

(***************************************************************************)
(* POST /generate-video, lines 331-378                                     *)
(***************************************************************************)
\* DispatchBranch without the kling branch (lines 374-375)
DispatchBranchNoKling(b) ==
    IF b.provider = Hedra THEN "hedra" ELSE "veo"

\* the branch of the dispatch at lines 371-378
DispatchBranch(b) ==
    IF b.provider = Hedra THEN "hedra"
    ELSE IF b.provider = Kling THEN "kling"
    ELSE "veo"

\* HandleRequestOutcome without the test of the reference image (lines 362-365)
HandleRequestOutcomeNoImageCheck(r) ==
    IF ~Truthy(Final(body[r]).scriptText)
    THEN Respond(MissingFieldResponse("Missing required fields: scriptText or prompt"))
    ELSE Goto(DispatchBranch(body[r]))

HandleRequestOutcome(r) ==
    IF ~Truthy(Final(body[r]).scriptText)
    THEN Respond(MissingFieldResponse("Missing required fields: scriptText or prompt"))
    ELSE IF ~Truthy(Final(body[r]).referenceImage)
    THEN Respond(MissingFieldResponse("Missing required fields: referenceImage or imageUrl"))
    ELSE Goto(DispatchBranch(body[r]))

HandleRequest(r) ==
    /\ pc[r] = "received"
    /\ LET out == HandleRequestOutcome(r)
       IN  /\ Step(r, out, inflight[r])
           /\ provider' = [provider EXCEPT ![r] = IF out.kind = "goto" THEN out.to ELSE @]
    /\ final' = [final EXCEPT ![r] = Final(body[r])]
    /\ UNCHANGED <<env, live, body, answerLog, statusLog, submitLog, pollLog, operationName, attempts, pollData, hedraI>>

(***************************************************************************)
(* generateVeoVideo, lines 462-520: the seed and the negative prompt       *)
(***************************************************************************)
American == <<"a", "m", "e", "r", "i", "c", "a", "n">>

British == <<"b", "r", "i", "t", "i", "s", "h">>

Australian == <<"a", "u", "s", "t", "r", "a", "l", "i", "a", "n">>

Indian == <<"i", "n", "d", "i", "a", "n">>

SouthAfrican == <<"s", "o", "u", "t", "h", "-", "a", "f", "r", "i", "c", "a", "n">>

FemaleSuffix == <<"-", "f", "e", "m", "a", "l", "e">>

\* the keys of seedMap that name a female variant
Female(accent) == accent \o FemaleSuffix

\* the seed of voiceAccent || 12345 for a key seedMap does not have
DefaultSeed == 12345

\* const seedMap of lines 464-475
seedMap ==
    (American :> 12345) @@ (British :> 23456) @@ (Australian :> 34567)
    @@ (Indian :> 45678) @@ (SouthAfrican :> 56789)
    @@ (Female(American) :> 67890) @@ (Female(British) :> 78901)
    @@ (Female(Australian) :> 89012) @@ (Female(Indian) :> 90123)
    @@ (Female(SouthAfrican) :> 11111)

AmericanAccent ==
    <<"A", "m", "e", "r", "i", "c", "a", "n", " ", "a", "c", "c", "e", "n", "t">>

BritishAccent ==
    <<"B", "r", "i", "t", "i", "s", "h", " ", "a", "c", "c", "e", "n", "t">>

AustralianAccent ==
    <<"A", "u", "s", "t", "r", "a", "l", "i", "a", "n", " ", "a", "c", "c", "e", "n",
      "t">>

IndianAccent ==
    <<"I", "n", "d", "i", "a", "n", " ", "a", "c", "c", "e", "n", "t">>

SouthAfricanAccent ==
    <<"S", "o", "u", "t", "h", " ", "A", "f", "r", "i", "c", "a", "n", " ", "a", "c",
      "c", "e", "n", "t">>

CommaSpace == <<",", " ">>

\* the text of a list of four accents, as the literals of lines 495-499 have it
List4(a, b, c, d) == a \o CommaSpace \o b \o CommaSpace \o c \o CommaSpace \o d

\* const negativeVoiceMap of lines 494-500
negativeVoiceMap ==
    (SouthAfrican :> List4(AmericanAccent, BritishAccent, AustralianAccent, IndianAccent))
    @@ (American :> List4(BritishAccent, AustralianAccent, IndianAccent, SouthAfricanAccent))
    @@ (British :> List4(AmericanAccent, AustralianAccent, IndianAccent, SouthAfricanAccent))
    @@ (Australian :> List4(AmericanAccent, BritishAccent, IndianAccent, SouthAfricanAccent))
    @@ (Indian :> List4(AmericanAccent, BritishAccent, AustralianAccent, SouthAfricanAccent))

\* the properties an object literal inherits from Object.prototype whose value
\* is a function
InheritedFunctions ==
    {<<"c", "o", "n", "s", "t", "r", "u", "c", "t", "o", "r">>,
     <<"h", "a", "s", "O", "w", "n", "P", "r", "o", "p", "e", "r", "t", "y">>,
     <<"i", "s", "P", "r", "o", "t", "o", "t", "y", "p", "e", "O", "f">>,
     <<"p", "r", "o", "p", "e", "r", "t", "y", "I", "s", "E", "n", "u", "m", "e", "r", "a", "b", "l", "e">>,
     <<"t", "o", "L", "o", "c", "a", "l", "e", "S", "t", "r", "i", "n", "g">>,
     <<"t", "o", "S", "t", "r", "i", "n", "g">>,
     <<"v", "a", "l", "u", "e", "O", "f">>,
     <<"_", "_", "d", "e", "f", "i", "n", "e", "G", "e", "t", "t", "e", "r", "_", "_">>,
     <<"_", "_", "d", "e", "f", "i", "n", "e", "S", "e", "t", "t", "e", "r", "_", "_">>,
     <<"_", "_", "l", "o", "o", "k", "u", "p", "G", "e", "t", "t", "e", "r", "_", "_">>,
     <<"_", "_", "l", "o", "o", "k", "u", "p", "S", "e", "t", "t", "e", "r", "_", "_">>}

\* the property an object literal inherits whose value is Object.prototype
ProtoKey == <<"_", "_", "p", "r", "o", "t", "o", "_", "_">>

\* typeof map[key] for a key the object literal map does not have itself
Inherited(key) ==
    IF key \in InheritedFunctions THEN "function"
    ELSE IF key = ProtoKey THEN "object"
    ELSE "undefined"

\* what JSON.stringify writes for a property whose value is a number: the
\* number; a function: nothing (t is "function"); an object without own
\* properties: {} (t is "object")
Number(n) == [t |-> "number", n |-> n]

\* seedMap[voiceAccent] || 12345, as the request body carries it
voiceSeed(voiceAccent) ==
    IF voiceAccent \in DOMAIN seedMap THEN Number(seedMap[voiceAccent])
    ELSE IF Inherited(voiceAccent) = "undefined" THEN Number(DefaultSeed)
    ELSE [t |-> Inherited(voiceAccent), n |-> 0]

\* s.replace(pattern, replacement) for a string pattern: the first occurrence
Replace(s, pattern, replacement) ==
    LET k == IndexOf(s, pattern)
    IN  IF k = 0 THEN s
        ELSE SubSeq(s, 1, k - 1) \o replacement \o SubSeq(s, k + Len(pattern), Len(s))

\* negativeVoice looked up under the accent as it is (no replace)
negativeVoiceNoReplace(voiceAccent) ==
    IF voiceAccent \in DOMAIN negativeVoiceMap THEN Str(negativeVoiceMap[voiceAccent])
    ELSE IF Inherited(voiceAccent) = "undefined" THEN Str(<<>>)
    ELSE [t |-> Inherited(voiceAccent), s |-> <<>>]

\* negativeVoiceMap[voiceAccent.replace('-female', '')] || '', as the request
\* body carries it
negativeVoice(voiceAccent) ==
    LET key == Replace(voiceAccent, FemaleSuffix, <<>>)
    IN  IF key \in DOMAIN negativeVoiceMap THEN Str(negativeVoiceMap[key])
        ELSE IF Inherited(key) = "undefined" THEN Str(<<>>)
        ELSE [t |-> Inherited(key), s |-> <<>>]

\* the parameter voiceAccent = 'american' of generateVeoVideo: the default
\* stands for undefined only
VoiceAccentParam(v) == IF v.t = "undefined" THEN Str(American) ELSE v

\* what of requestBody the model keeps: the image of instances[0] and the
\* seed and negativePrompt of parameters
RequestBody(base64Data, mimeType, voiceAccent) ==
    [bytesBase64Encoded |-> base64Data, mimeType |-> mimeType,
     seed |-> voiceSeed(voiceAccent), negativePrompt |-> negativeVoice(voiceAccent)]

(***************************************************************************)
(* generateVeoVideo, lines 406-687                                         *)
(***************************************************************************)
\* lines 441-541: the image check, the request body, the submit call
VeoPrepare(r) ==
    LET base64Data == StripImagePrefix(final[r].referenceImage.s)
    IN  IF Len(base64Data) = 0 \/ Len(base64Data) < MinImageLen
        THEN Throw(r, "Invalid reference image data", "")
        ELSE IF body[r].voiceAccent.t = "null"
        THEN Throw(r, "TypeError", "voiceAccent.replace")
        ELSE Call("veo.submit",
                  RequestBody(base64Data, MimeType(final[r].referenceImage.s),
                              VoiceAccentParam(body[r].voiceAccent).s),
                  "veo.submit")

\* VeoAuthenticate without the throw of line 432
VeoAuthenticateNoCredentialCheck(r) ==
    IF env.serviceAccount THEN Call("auth.token", <<>>, "veo.auth")
    ELSE VeoPrepare(r)

\* lines 412-432
VeoAuthenticate(r) ==
    IF env.serviceAccount THEN Call("auth.token", <<>>, "veo.auth")
    ELSE IF env.accessToken THEN VeoPrepare(r)
    ELSE Throw(r, "Veo video generation requires service account or VEO_ACCESS_TOKEN", "")

VeoStart(r) ==
    /\ pc[r] = "veo"
    /\ Step(r, VeoAuthenticate(r), inflight[r])
    /\ UNCHANGED <<env, live, body, answerLog, statusLog, final, submitLog, pollLog, provider, operationName, attempts, pollData, hedraI>>

\* lines 419-420 resumed: the token arrives, or getClient/getAccessToken rejects
VeoTokenResponse(r) ==
    /\ pc[r] = "veo.auth"
    /\ Awaiting(r, "auth.token")
    /\ \E granted \in BOOLEAN :
         Step(r, IF granted THEN VeoPrepare(r) ELSE Throw(r, "auth failed", ""),
              Answered(inflight[r], "auth.token"))
    /\ UNCHANGED <<env, live, body, answerLog, statusLog, final, submitLog, pollLog, provider, operationName, attempts, pollData, hedraI>>

\* SubmitOutcome without the test of the operation name (lines 562-566)
SubmitOutcomeNoNameCheck(r, resp) ==
    IF resp.throws THEN Throw(r, "fetch failed", "")
    ELSE IF ~resp.ok THEN Throw(r, "Veo API error: ", "response.status - errorText")
    ELSE IF resp.error THEN Throw(r, "Veo API error: ", "operation.error.message")
    ELSE Goto("veo.loop")

\* SubmitOutcome with the submit issued again after a non-success status
SubmitOutcomeResubmits(r, resp) ==
    IF resp.throws THEN Throw(r, "fetch failed", "")
    ELSE IF ~resp.ok THEN VeoPrepare(r)
    ELSE IF resp.error THEN Throw(r, "Veo API error: ", "operation.error.message")
    ELSE IF ~Truthy(resp.name) THEN Throw(r, "No operation name returned from Veo API", "")
    ELSE Goto("veo.loop")

\* lines 543-566: what the submit response leads to
SubmitOutcome(r, resp) ==
    IF resp.throws THEN Throw(r, "fetch failed", "")
    ELSE IF ~resp.ok THEN Throw(r, "Veo API error: ", "response.status - errorText")
    ELSE IF resp.error THEN Throw(r, "Veo API error: ", "operation.error.message")
    ELSE IF ~Truthy(resp.name) THEN Throw(r, "No operation name returned from Veo API", "")
    ELSE Goto("veo.loop")

\* lines 543-578 resumed by a submit response of `answers`
VeoSubmitResponseFrom(r, answers) ==
    /\ pc[r] = "veo.submit"
    /\ Awaiting(r, "veo.submit")
    /\ \E resp \in answers :
         LET out == SubmitOutcome(r, resp)
         IN  /\ Step(r, out, Answered(inflight[r], "veo.submit"))
             /\ operationName' = [operationName EXCEPT ![r] =
                                     IF out.kind = "goto" THEN resp.name ELSE @]
             /\ attempts' = [attempts EXCEPT ![r] = IF out.kind = "goto" THEN 0 ELSE @]
             /\ submitLog' = [submitLog EXCEPT ![r] = Append(@, resp)]
    /\ UNCHANGED <<env, live, body, answerLog, statusLog, final, pollLog, provider, pollData, hedraI>>

VeoSubmitResponse(r) == VeoSubmitResponseFrom(r, SubmitResponses)

\* VeoLoopOutcome with the loop test off by one (attempts <= maxAttempts)
VeoLoopOutcomeOffByOne(r) ==
    IF attempts[r] <= maxAttempts
    THEN Call("veo.sleep", <<>>, "veo.sleep")
    ELSE Throw(r, "Veo video generation timed out", "")

\* VeoLoopOutcome with one attempt counter for all the calls in progress
VeoLoopOutcomeSharedCounter(r) ==
    IF \A c \in live : attempts[c] < maxAttempts
    THEN Call("veo.sleep", <<>>, "veo.sleep")
    ELSE Throw(r, "Veo video generation timed out", "")

\* lines 580-581 and 685-686: the loop test, then the sleep or the timeout
VeoLoopOutcome(r) ==
    IF attempts[r] < maxAttempts
    THEN Call("veo.sleep", <<>>, "veo.sleep")
    ELSE Throw(r, "Veo video generation timed out", "")

VeoLoop(r) ==
    /\ pc[r] = "veo.loop"
    /\ Step(r, VeoLoopOutcome(r), inflight[r])
    /\ UNCHANGED <<env, live, body, answerLog, statusLog, final, submitLog, pollLog, provider, operationName, attempts, pollData, hedraI>>

\* VeoPoll without attempts++ (line 582)
VeoPollNoCount(r) ==
    /\ pc[r] = "veo.sleep"
    /\ Awaiting(r, "veo.sleep")
    /\ attempts' = attempts
    /\ Step(r, Call("veo.poll", operationName[r].s, "veo.poll"),
            Answered(inflight[r], "veo.sleep"))
    /\ UNCHANGED <<env, live, body, answerLog, statusLog, final, submitLog, pollLog, provider, operationName, pollData, hedraI>>

\* VeoPoll with the attempt counter advanced twice per poll
VeoPollCountsTwice(r) ==
    /\ pc[r] = "veo.sleep"
    /\ Awaiting(r, "veo.sleep")
    /\ attempts' = [attempts EXCEPT ![r] = @ + 2]
    /\ Step(r, Call("veo.poll", operationName[r].s, "veo.poll"),
            Answered(inflight[r], "veo.sleep"))
    /\ UNCHANGED <<env, live, body, answerLog, statusLog, final, submitLog, pollLog, provider, operationName, pollData, hedraI>>

\* lines 582-596: the sleep is over; attempts++ and the poll call
VeoPoll(r) ==
    /\ pc[r] = "veo.sleep"
    /\ Awaiting(r, "veo.sleep")
    /\ attempts' = [attempts EXCEPT ![r] = @ + 1]
    /\ Step(r, Call("veo.poll", operationName[r].s, "veo.poll"),
            Answered(inflight[r], "veo.sleep"))
    /\ UNCHANGED <<env, live, body, answerLog, statusLog, final, submitLog, pollLog, provider, operationName, pollData, hedraI>>

NoArtifact(r) == Throw(r, "No video data in completed operation", "")

HasFirst(array) == array.present /\ Len(array.items) > 0

\* FromPredictions without the test of predictions[0].bytesBase64Encoded
\* (lines 657-660)
FromPredictionsGcsOnly(r, data) ==
    LET predictions == data.response.predictions
    IN  IF ~HasFirst(predictions) THEN NoArtifact(r)
        ELSE IF Truthy(predictions.items[1].gcsUri)
        THEN Call("gcs.fetch", predictions.items[1].gcsUri.s, "veo.fetch.predictions")
        ELSE NoArtifact(r)

\* FromPredictions with a completed operation that has no predictions taken
\* for one still running
FromPredictionsKeepsPolling(r, data) ==
    LET predictions == data.response.predictions
    IN  IF ~HasFirst(predictions) THEN Goto("veo.loop")
        ELSE IF Truthy(predictions.items[1].bytesBase64Encoded)
        THEN Return(r, DataUri(predictions.items[1].bytesBase64Encoded.s))
        ELSE IF Truthy(predictions.items[1].gcsUri)
        THEN Call("gcs.fetch", predictions.items[1].gcsUri.s, "veo.fetch.predictions")
        ELSE Goto("veo.loop")

\* lines 651-679: the predictions array, reached when videos gave nothing
FromPredictions(r, data) ==
    LET predictions == data.response.predictions
    IN  IF ~HasFirst(predictions) THEN NoArtifact(r)
        ELSE IF Truthy(predictions.items[1].bytesBase64Encoded)
        THEN Return(r, DataUri(predictions.items[1].bytesBase64Encoded.s))
        ELSE IF Truthy(predictions.items[1].gcsUri)
        THEN Call("gcs.fetch", predictions.items[1].gcsUri.s, "veo.fetch.predictions")
        ELSE NoArtifact(r)

\* AfterVideosGcs without the test of videos[0].bytesBase64Encoded (lines 644-647)
AfterVideosGcsSkipsBytes(r, data) == FromPredictions(r, data)

\* lines 643-648, then the predictions: reached without a videos gcsUri or
\* after its fetch failed
AfterVideosGcs(r, data) ==
    LET videos == data.response.videos
    IN  IF HasFirst(videos) /\ Truthy(videos.items[1].bytesBase64Encoded)
        THEN Return(r, DataUri(videos.items[1].bytesBase64Encoded.s))
        ELSE FromPredictions(r, data)

\* FromVideos with videos[0].bytesBase64Encoded tested before videos[0].gcsUri
FromVideosBytesFirst(r, data) ==
    LET videos == data.response.videos
    IN  IF HasFirst(videos) /\ Truthy(videos.items[1].bytesBase64Encoded)
        THEN Return(r, DataUri(videos.items[1].bytesBase64Encoded.s))
        ELSE IF HasFirst(videos) /\ Truthy(videos.items[1].gcsUri)
        THEN Call("gcs.fetch", videos.items[1].gcsUri.s, "veo.fetch.videos")
        ELSE FromPredictions(r, data)

\* lines 619-641: the videos array and its gcsUri
FromVideos(r, data) ==
    LET videos == data.response.videos
    IN  IF HasFirst(videos) /\ Truthy(videos.items[1].gcsUri)
        THEN Call("gcs.fetch", videos.items[1].gcsUri.s, "veo.fetch.videos")
        ELSE AfterVideosGcs(r, data)

\* PollOutcome with a failed operation taken for one still running
\* (if (pollData.done && !pollData.error))
PollOutcomeKeepsPolling(r, resp) ==
    IF resp.throws THEN Throw(r, "fetch failed", "")
    ELSE IF ~resp.ok THEN Throw(r, "Poll error: ", "pollResponse.status - pollError")
    ELSE IF ~resp.data.done \/ resp.data.error THEN Goto("veo.loop")
    ELSE FromVideos(r, resp.data)

\* PollOutcome with the attempt ceiling tested before the response is read
PollOutcomeCeilingFirst(r, resp) ==
    IF resp.throws THEN Throw(r, "fetch failed", "")
    ELSE IF ~resp.ok THEN Throw(r, "Poll error: ", "pollResponse.status - pollError")
    ELSE IF attempts[r] >= maxAttempts THEN Throw(r, "Veo video generation timed out", "")
    ELSE IF ~resp.data.done THEN Goto("veo.loop")
    ELSE IF resp.data.error
    THEN Throw(r, "Veo generation failed: ", "pollData.error.message")
    ELSE FromVideos(r, resp.data)

\* PollOutcome with a non-success status retried on the next tick
PollOutcomeRetries(r, resp) ==
    IF resp.throws THEN Throw(r, "fetch failed", "")
    ELSE IF ~resp.ok THEN Goto("veo.loop")
    ELSE IF ~resp.data.done THEN Goto("veo.loop")
    ELSE IF resp.data.error
    THEN Throw(r, "Veo generation failed: ", "pollData.error.message")
    ELSE FromVideos(r, resp.data)

\* PollOutcome with the response body of a done operation read before its
\* error
PollOutcomeExtractsFirst(r, resp) ==
    IF resp.throws THEN Throw(r, "fetch failed", "")
    ELSE IF ~resp.ok THEN Throw(r, "Poll error: ", "pollResponse.status - pollError")
    ELSE IF ~resp.data.done THEN Goto("veo.loop")
    ELSE IF resp.data.response.present THEN FromVideos(r, resp.data)
    ELSE IF resp.data.error
    THEN Throw(r, "Veo generation failed: ", "pollData.error.message")
    ELSE FromVideos(r, resp.data)

\* lines 598-682: what a poll response leads to
PollOutcome(r, resp) ==
    IF resp.throws THEN Throw(r, "fetch failed", "")
    ELSE IF ~resp.ok THEN Throw(r, "Poll error: ", "pollResponse.status - pollError")
    ELSE IF ~resp.data.done THEN Goto("veo.loop")
    ELSE IF resp.data.error
    THEN Throw(r, "Veo generation failed: ", "pollData.error.message")
    ELSE FromVideos(r, resp.data)

\* what a poll response was: its fetch rejected, a non-success status, an
\* operation still pending, or one done with or without an error
PollKind(resp) ==
    IF resp.throws THEN "throws"
    ELSE IF ~resp.ok THEN "status"
    ELSE IF ~resp.data.done THEN "pending"
    ELSE IF resp.data.error THEN "done.error"
    ELSE "done"

\* lines 598-682 resumed by a poll response of `answers`
VeoPollResponseFrom(r, answers) ==
    /\ pc[r] = "veo.poll"
    /\ Awaiting(r, "veo.poll")
    /\ \E resp \in answers :
         /\ Step(r, PollOutcome(r, resp), Answered(inflight[r], "veo.poll"))
         /\ pollData' = [pollData EXCEPT ![r] =
                            IF ~resp.throws /\ resp.ok THEN resp.data ELSE @]
         /\ pollLog' = [pollLog EXCEPT ![r] = Append(@, PollKind(resp))]
    /\ UNCHANGED <<env, live, body, answerLog, statusLog, final, submitLog, provider, operationName, attempts, hedraI>>

VeoPollResponse(r) == VeoPollResponseFrom(r, PollResponses)

\* what the answer to a fetch was: the fetch rejected, a non-success status,
\* or a success status
AnswerKind(resp) ==
    IF resp.throws THEN "throws" ELSE IF ~resp.ok THEN "status" ELSE "ok"

\* the answer resp to the call that call r awaited at point `at`
Answer(at, resp, buffer) == [at |-> at, kind |-> AnswerKind(resp), buffer |-> buffer]

\* VideosFetchOutcome with a failed fetch failing the request
VideosFetchOutcomeFails(r, resp) ==
    IF ~resp.throws /\ resp.ok
    THEN Return(r, DataUri(Base64(resp.buffer)))
    ELSE Throw(r, "fetch failed", "")

\* lines 630-641 resumed by the fetch of videos[0].gcsUri
VideosFetchOutcome(r, resp) ==
    IF ~resp.throws /\ resp.ok
    THEN Return(r, DataUri(Base64(resp.buffer)))
    ELSE AfterVideosGcs(r, pollData[r])

VeoVideosFetchResponse(r) ==
    /\ pc[r] = "veo.fetch.videos"
    /\ Awaiting(r, "gcs.fetch")
    /\ \E resp \in FetchResponses :
         /\ Step(r, VideosFetchOutcome(r, resp), Answered(inflight[r], "gcs.fetch"))
         /\ answerLog' = [answerLog EXCEPT ![r] = Append(@, Answer(pc[r], resp, resp.buffer))]
    /\ UNCHANGED <<env, live, body, statusLog, final, submitLog, pollLog, provider, operationName, attempts, pollData, hedraI>>

\* PredictionsFetchOutcome with a rejected fetch not caught (lines 670-672)
PredictionsFetchOutcomeSurfaces(r, resp) ==
    IF resp.throws THEN Throw(r, "fetch failed", "")
    ELSE IF resp.ok
    THEN Return(r, DataUri(Base64(resp.buffer)))
    ELSE NoArtifact(r)

\* lines 666-679 resumed by the fetch of predictions[0].gcsUri
PredictionsFetchOutcome(r, resp) ==
    IF ~resp.throws /\ resp.ok
    THEN Return(r, DataUri(Base64(resp.buffer)))
    ELSE NoArtifact(r)

VeoPredictionsFetchResponse(r) ==
    /\ pc[r] = "veo.fetch.predictions"
    /\ Awaiting(r, "gcs.fetch")
    /\ \E resp \in FetchResponses :
         /\ Step(r, PredictionsFetchOutcome(r, resp), Answered(inflight[r], "gcs.fetch"))
         /\ answerLog' = [answerLog EXCEPT ![r] = Append(@, Answer(pc[r], resp, resp.buffer))]
    /\ UNCHANGED <<env, live, body, statusLog, final, submitLog, pollLog, provider, operationName, attempts, pollData, hedraI>>

(***************************************************************************)
(* generateHedraVideo and pollHedraVideo, lines 690-791                    *)
(***************************************************************************)
CdnUrl == <<"h", "t", "t", "p", "s", ":", "/", "/", "c", "d", "n", "/", "v", ".", "m", "p", "4">>

\* what a Hedra create call can come back with
HedraResponses ==
    {[throws |-> TRUE, ok |-> FALSE], [throws |-> FALSE, ok |-> FALSE],
     [throws |-> FALSE, ok |-> TRUE]}

\* what the Hedra status call can come back with: {status, video_url?}
HedraStatusResponses ==
    {[throws |-> TRUE, ok |-> FALSE, status |-> "", video_url |-> Undefined],
     [throws |-> FALSE, ok |-> FALSE, status |-> "", video_url |-> Undefined]}
    \cup
    {[throws |-> FALSE, ok |-> TRUE, status |-> s, video_url |-> u] :
        s \in {"processing", "completed", "failed"},
        u \in {Undefined, Str(CdnUrl), Str(VideoDataPrefix \o Zm9v)}}

\* lines 697-708
HedraStart(r) ==
    /\ pc[r] = "hedra"
    /\ Step(r, Call("hedra.character", <<>>, "hedra.character"), inflight[r])
    /\ UNCHANGED <<env, live, body, answerLog, statusLog, final, submitLog, pollLog, provider, operationName, attempts, pollData, hedraI>>

\* CharacterOutcome without the test of initResponse.ok (lines 710-713)
CharacterOutcomeIgnoresStatus(r, resp) ==
    IF resp.throws THEN Throw(r, "fetch failed", "")
    ELSE Call("hedra.tts", <<>>, "hedra.tts")

\* lines 710-719: the character response, then the call of generateTTS
CharacterOutcome(r, resp) ==
    IF resp.throws THEN Throw(r, "fetch failed", "")
    ELSE IF ~resp.ok
    THEN Throw(r, "Hedra init error: ", "error.message || initResponse.status")
    ELSE Call("hedra.tts", <<>>, "hedra.tts")

HedraCharacterResponse(r) ==
    /\ pc[r] = "hedra.character"
    /\ Awaiting(r, "hedra.character")
    /\ \E resp \in HedraResponses :
         /\ Step(r, CharacterOutcome(r, resp), Answered(inflight[r], "hedra.character"))
         /\ answerLog' = [answerLog EXCEPT ![r] = Append(@, Answer(pc[r], resp, <<>>))]
    /\ UNCHANGED <<env, live, body, statusLog, final, submitLog, pollLog, provider, operationName, attempts, pollData, hedraI>>

\* lines 719-734 and 755-761: generateTTS resolves with its placeholder, then
\* the video-create call
HedraTTSDone(r) ==
    /\ pc[r] = "hedra.tts"
    /\ Awaiting(r, "hedra.tts")
    /\ Step(r, Call("hedra.video", <<>>, "hedra.video"), Answered(inflight[r], "hedra.tts"))
    /\ UNCHANGED <<env, live, body, answerLog, statusLog, final, submitLog, pollLog, provider, operationName, attempts, pollData, hedraI>>

\* HedraLoopOutcome with the loop test off by one (i <= maxAttempts)
HedraLoopOutcomeOffByOne(r, i) ==
    IF i <= hedraMaxAttempts
    THEN Call("hedra.status", <<>>, "hedra.status")
    ELSE Throw(r, "Hedra video generation timed out", "")

\* lines 765-770: the loop test of pollHedraVideo and the status call
HedraLoopOutcome(r, i) ==
    IF i < hedraMaxAttempts
    THEN Call("hedra.status", <<>>, "hedra.status")
    ELSE Throw(r, "Hedra video generation timed out", "")

\* lines 736-744
VideoCreateOutcome(r, resp) ==
    IF resp.throws THEN Throw(r, "fetch failed", "")
    ELSE IF ~resp.ok
    THEN Throw(r, "Hedra video error: ", "error.message || videoResponse.status")
    ELSE HedraLoopOutcome(r, 0)

HedraVideoResponse(r) ==
    /\ pc[r] = "hedra.video"
    /\ Awaiting(r, "hedra.video")
    /\ \E resp \in HedraResponses :
         /\ Step(r, VideoCreateOutcome(r, resp), Answered(inflight[r], "hedra.video"))
         /\ hedraI' = [hedraI EXCEPT ![r] = IF ~resp.throws /\ resp.ok THEN 0 ELSE @]
         /\ answerLog' = [answerLog EXCEPT ![r] = Append(@, Answer(pc[r], resp, <<>>))]
    /\ UNCHANGED <<env, live, body, statusLog, final, submitLog, pollLog, provider, operationName, attempts, pollData>>

\* StatusOutcome with completed taken as the end of the video whether or not
\* the response holds a video_url
StatusOutcomeCompletedEnds(r, resp) ==
    IF resp.throws THEN Throw(r, "fetch failed", "")
    ELSE IF ~resp.ok THEN Throw(r, "Poll error: ", "response.status")
    ELSE IF resp.status = "completed" /\ Truthy(resp.video_url)
    THEN Return(r, resp.video_url)
    ELSE IF resp.status \in {"completed", "failed"}
    THEN Throw(r, "Hedra video generation failed", "")
    ELSE Call("hedra.sleep", <<>>, "hedra.sleep")

\* lines 772-787
StatusOutcome(r, resp) ==
    IF resp.throws THEN Throw(r, "fetch failed", "")
    ELSE IF ~resp.ok THEN Throw(r, "Poll error: ", "response.status")
    ELSE IF resp.status = "completed" /\ Truthy(resp.video_url)
    THEN Return(r, resp.video_url)
    ELSE IF resp.status = "failed" THEN Throw(r, "Hedra video generation failed", "")
    ELSE Call("hedra.sleep", <<>>, "hedra.sleep")

\* what a status response was: its fetch rejected, a non-success status, a
\* completed video with its URL, a failed video, or anything else
StatusKind(resp) ==
    IF resp.throws THEN "throws"
    ELSE IF ~resp.ok THEN "status"
    ELSE IF resp.status = "completed" /\ Truthy(resp.video_url) THEN "completed"
    ELSE IF resp.status = "failed" THEN "failed"
    ELSE "pending"

\* lines 772-787 resumed by a status response of `answers`
HedraStatusResponseFrom(r, answers) ==
    /\ pc[r] = "hedra.status"
    /\ Awaiting(r, "hedra.status")
    /\ \E resp \in answers :
         /\ Step(r, StatusOutcome(r, resp), Answered(inflight[r], "hedra.status"))
         /\ statusLog' = [statusLog EXCEPT ![r] = Append(@, StatusKind(resp))]
    /\ UNCHANGED <<env, live, body, answerLog, final, submitLog, pollLog, provider, operationName, attempts, pollData, hedraI>>

HedraStatusResponse(r) == HedraStatusResponseFrom(r, HedraStatusResponses)

\* line 787 resumed, then i++ and the loop test of line 765
HedraSleepDone(r) ==
    /\ pc[r] = "hedra.sleep"
    /\ Awaiting(r, "hedra.sleep")
    /\ hedraI' = [hedraI EXCEPT ![r] = @ + 1]
    /\ Step(r, HedraLoopOutcome(r, hedraI[r] + 1), Answered(inflight[r], "hedra.sleep"))
    /\ UNCHANGED <<env, live, body, answerLog, statusLog, final, submitLog, pollLog, provider, operationName, attempts, pollData>>

(***************************************************************************)
(* generateKlingVideo, lines 794-806                                       *)
(***************************************************************************)
\* KlingOutcome without the test of the API key (lines 796-798)
KlingOutcomeNoKeyTest(r) == Throw(r, "Kling integration not yet implemented", "")

KlingOutcome(r) ==
    IF ~env.klingApiKey THEN Throw(r, "KLING_API_KEY not configured", "")
    ELSE Throw(r, "Kling integration not yet implemented", "")

KlingStart(r) ==
    /\ pc[r] = "kling"
    /\ Step(r, KlingOutcome(r), inflight[r])
    /\ UNCHANGED <<env, live, body, answerLog, statusLog, final, submitLog, pollLog, provider, operationName, attempts, pollData, hedraI>>

(***************************************************************************)
(* Specifications                                                          *)
(***************************************************************************)
\* the state in which the calls of `calls` have arrived with bodies of `bodies`
InitWith(calls, bodies) ==
    /\ env \in Envs
    /\ live = calls
    /\ body \in [calls -> bodies]
    /\ pc = [r \in calls |-> "received"]
    /\ provider = [r \in calls |-> "none"]
    /\ operationName = [r \in calls |-> Undefined]
    /\ attempts = [r \in calls |-> 0]
    /\ pollData = [r \in calls |-> NoPollData]
    /\ hedraI = [r \in calls |-> 0]
    /\ inflight = [r \in calls |-> <<>>]
    /\ sent = [r \in calls |-> [k \in Kinds |-> 0]]
    /\ final = [r \in calls |-> NoFinal]
    /\ submitLog = [r \in calls |-> <<>>]
    /\ pollLog = [r \in calls |-> <<>>]
    /\ statusLog = [r \in calls |-> <<>>]
    /\ answerLog = [r \in calls |-> <<>>]
    /\ responses = [r \in calls |-> <<>>]

Init == InitWith({1}, Bodies)

Next ==
    \/ \E r \in live : HandleRequest(r)
    \/ \E r \in live : VeoStart(r)
    \/ \E r \in live : VeoTokenResponse(r)
    \/ \E r \in live : VeoSubmitResponse(r)
    \/ \E r \in live : VeoLoop(r)
    \/ \E r \in live : VeoPoll(r)
    \/ \E r \in live : VeoPollResponse(r)
    \/ \E r \in live : VeoVideosFetchResponse(r)
    \/ \E r \in live : VeoPredictionsFetchResponse(r)
    \/ \E r \in live : HedraStart(r)
    \/ \E r \in live : HedraCharacterResponse(r)
    \/ \E r \in live : HedraTTSDone(r)
    \/ \E r \in live : HedraVideoResponse(r)
    \/ \E r \in live : HedraStatusResponse(r)
    \/ \E r \in live : HedraSleepDone(r)
    \/ \E r \in live : KlingStart(r)

\* one call to POST /generate-video, from its arrival to its response
Spec == Init /\ [][Next]_vars

\* the prompts of the field mapping: up to n pieces, each a marker, a part
\* of a marker or plain text
PromptPieces ==
    {ScriptMarker, StyleMarker, Hi, <<"D">>,
     <<".", " ", "S", "t", "y", "l", "e", ":">>}

RECURSIVE Prompts(_)
Prompts(n) ==
    IF n = 0 THEN {<<>>}
    ELSE Prompts(n - 1) \cup {s \o piece : s \in Prompts(n - 1), piece \in PromptPieces}

NormBodies ==
    {Body(st, dir, img, pr, url, Undefined, Undefined) :
        st \in {Undefined, Str(Hi)},
        dir \in {Undefined, Str(<<"X">>)},
        img \in {Undefined, Str(ImgPng)},
        pr \in {Undefined} \cup {Str(s) : s \in Prompts(MaxPieces)},
        url \in {Undefined, Str(ImgRaw)}}

InitNorm == InitWith({1}, NormBodies)

NextNorm == \E r \in live : HandleRequest(r)

\* the field mapping and validation of the handler, over many prompts
SpecNorm == InitNorm /\ [][NextNorm]_vars

UnknownValue == <<"u", "n", "k", "n", "o", "w", "n", "-", "v", "a", "l", "u", "e">>

\* the values of voiceAccent: the ten keys of seedMap, strings that are not
\* keys (among them names every object literal inherits, and strings that
\* hold -female elsewhere than the keys do), and no string
VoiceAccents ==
    {Str(a) : a \in DOMAIN seedMap}
    \cup
    {Str(UnknownValue), Str(<<>>), Str(<<"c", "o", "n", "s", "t", "r", "u", "c", "t", "o", "r">>), Str(ProtoKey),
     Str(FemaleSuffix \o British), Str(Female(Female(British))), Undefined, Null}

VoiceBodies ==
    {Body(Str(Hi), Undefined, Str(ImgPng), Undefined, Undefined, prov, acc) :
        prov \in {Undefined, Veo}, acc \in VoiceAccents}

InitVoice == InitWith({1}, VoiceBodies)

NextVoice ==
    \/ \E r \in live : HandleRequest(r)
    \/ \E r \in live : VeoStart(r)
    \/ \E r \in live : VeoTokenResponse(r)

\* a call to the veo provider up to its submit, over the values of voiceAccent
SpecVoice == InitVoice /\ [][NextVoice]_vars

\* two calls with the same content
TwoBodies == {Body(Str(Hi), Undefined, Str(ImgPng), Undefined, Undefined, Veo, Undefined)}

\* the submit answered with one of two operation names
TwoSubmitResponses ==
    {[throws |-> FALSE, ok |-> TRUE, error |-> FALSE, name |-> Str(n)] : n \in {Op1, Op2}}

\* a poll answered not done, done with videos[0].bytesBase64Encoded, or with
\* a non-success status
TwoPollResponses ==
    {[throws |-> FALSE, ok |-> TRUE, data |-> NoPollData],
     [throws |-> FALSE, ok |-> FALSE, data |-> NoPollData],
     [throws |-> FALSE, ok |-> TRUE,
      data |-> [done |-> TRUE, error |-> FALSE,
                response |-> [present |-> TRUE,
                              videos |-> Array(<<[gcsUri |-> Undefined,
                                                  bytesBase64Encoded |-> Str(Zm9v)]>>),
                              predictions |-> NoArray]]]}

InitTwo == InitWith({1, 2}, TwoBodies) /\ env.accessToken

NextTwo ==
    \/ \E r \in live : HandleRequest(r)
    \/ \E r \in live : VeoStart(r)
    \/ \E r \in live : VeoSubmitResponseFrom(r, TwoSubmitResponses)
    \/ \E r \in live : VeoLoop(r)
    \/ \E r \in live : VeoPoll(r)
    \/ \E r \in live : VeoPollResponseFrom(r, TwoPollResponses)

\* two calls to the veo provider in progress at the same time
SpecTwo == InitTwo /\ [][NextTwo]_vars

\* Hedra calls
HedraBodies ==
    {Body(Str(Hi), Undefined, img, Undefined, Undefined, Hedra, Undefined) :
        img \in {Str(ImgTiny), Str(ImgPng)}}

\* the status answered completed, with or without a video_url, or failed, or
\* with a non-success status, or not at all: never still in progress
EndedStatusResponses == {resp \in HedraStatusResponses : resp.status # "processing"}

InitEnded == InitWith({1}, HedraBodies)

NextEnded ==
    \/ \E r \in live : HandleRequest(r)
    \/ \E r \in live : HedraStart(r)
    \/ \E r \in live : HedraCharacterResponse(r)
    \/ \E r \in live : HedraTTSDone(r)
    \/ \E r \in live : HedraVideoResponse(r)
    \/ \E r \in live : HedraStatusResponseFrom(r, EndedStatusResponses)
    \/ \E r \in live : HedraSleepDone(r)

\* a call to the Hedra provider whose video is never reported in progress
SpecEnded == InitEnded /\ [][NextEnded]_vars

(***************************************************************************)
(* Properties                                                              *)
(***************************************************************************)
Responded(r) == pc[r] = "responded"

LastResponse(r) == responses[r][Len(responses[r])]

\* call r was answered with status 500 and this error.message
FailedWith(r, message) ==
    /\ Responded(r)
    /\ Len(responses[r]) = 1
    /\ LastResponse(r).status = 500
    /\ LastResponse(r).error = message

Succeeded(r) ==
    Responded(r) /\ Len(responses[r]) = 1 /\ LastResponse(r).success

\* the number of calls of kind k in flight for call r
InFlight(r, k) == Cardinality({n \in 1..Len(inflight[r]) : inflight[r][n].kind = k})

\* the failures of the Veo path under the names the specification gives them
ProviderSubmitError(r) ==
    \/ FailedWith(r, "Veo API error: ")
    \/ FailedWith(r, "No operation name returned from Veo API")

ProviderPollError(r) == provider[r] = "veo" /\ FailedWith(r, "Poll error: ")

ProviderOperationError(r) ==
    /\ FailedWith(r, "Veo generation failed: ")
    /\ LastResponse(r).detail = "pollData.error.message"

ProviderTimeout(r) == FailedWith(r, "Veo video generation timed out")

NoArtifactError(r) == FailedWith(r, "No video data in completed operation")

\* the first n poll responses of call r were successful and reported not done
AllPending(r, n) ==
    Len(pollLog[r]) >= n /\ \A k \in 1..n : pollLog[r][k] = "pending"

LastPoll(r) == pollLog[r][Len(pollLog[r])]

\* C1: within one Veo request the submit has been answered (successfully,
\* exactly one submit issued) before a poll is issued; at most one poll is in
\* flight in every state; and a poll is issued only when every earlier poll
\* has been answered and every answer reported the operation not done.
C1_PollsSequential ==
    /\ [](\A r \in live :
            /\ InFlight(r, "veo.poll") <= 1
            /\ InFlight(r, "veo.poll") = 1 =>
                 /\ InFlight(r, "veo.submit") = 0
                 /\ sent[r]["veo.submit"] = 1
                 /\ Len(pollLog[r]) = sent[r]["veo.poll"] - 1)
    /\ [][\A r \in live :
            sent'[r]["veo.poll"] # sent[r]["veo.poll"] =>
                /\ sent'[r]["veo.poll"] = sent[r]["veo.poll"] + 1
                /\ sent[r]["veo.submit"] = 1
                /\ Len(submitLog[r]) = 1
                /\ InFlight(r, "veo.submit") = 0
                /\ InFlight(r, "veo.poll") = 0
                /\ AllPending(r, sent[r]["veo.poll"])
                /\ Len(pollLog[r]) = sent[r]["veo.poll"]]_vars

\* a second poll is in flight, the first one answered
C1_Witness ==
    \E r \in live :
        sent[r]["veo.poll"] = 2 /\ InFlight(r, "veo.poll") = 1 /\ Len(pollLog[r]) = 1

\* C2: no request ever issues more than 60 polls; once the first 60 poll
\* responses were all successful and not done, exactly 60 polls have been
\* issued and none is in flight, the request is at its loop test or answered,
\* its next step exists and answers with the timeout failure, and no other
\* answer is ever given.
C2_TimeoutAfterSixty ==
    /\ [](\A r \in live :
            /\ sent[r]["veo.poll"] <= maxAttempts
            /\ AllPending(r, maxAttempts) =>
                 /\ sent[r]["veo.poll"] = maxAttempts
                 /\ Len(pollLog[r]) = maxAttempts
                 /\ InFlight(r, "veo.poll") = 0
                 /\ pc[r] \in {"veo.loop", "responded"}
                 /\ Responded(r) => ProviderTimeout(r)
                 /\ ~Responded(r) => ENABLED VeoLoop(r))
    /\ [][\A r \in live :
            (AllPending(r, maxAttempts) /\ ~Responded(r) /\ pc'[r] # pc[r]) =>
                /\ ProviderTimeout(r)'
                /\ sent'[r] = sent[r]]_vars

\* the request timed out after 60 polls that all reported not done
C2_Witness ==
    \E r \in live :
        AllPending(r, maxAttempts) /\ ProviderTimeout(r) /\ sent[r]["veo.poll"] = maxAttempts

\* C3: a poll response that reports done is acted on whatever the attempt:
\* after it the request never times out and never goes back to the loop, and
\* when it carries an error (in particular at poll 60 after 59 polls not done)
\* the request has failed with the remote-operation failure.
C3_DoneBeforeCeiling ==
    \A r \in live :
        (Len(pollLog[r]) >= 1 /\ LastPoll(r) \in {"done", "done.error"}) =>
            /\ Len(pollLog[r]) <= maxAttempts
            /\ AllPending(r, Len(pollLog[r]) - 1)
            /\ ~ProviderTimeout(r)
            /\ pc[r] \notin {"veo.loop", "veo.sleep", "veo.poll"}
            /\ LastPoll(r) = "done.error" => ProviderOperationError(r)

\* polls 1..59 reported not done, poll 60 done with an error
C3_Witness ==
    \E r \in live :
        /\ Len(pollLog[r]) = maxAttempts
        /\ AllPending(r, maxAttempts - 1)
        /\ LastPoll(r) = "done.error"
        /\ ProviderOperationError(r)

\* C4: once a poll came back with a non-success status, whatever the attempt,
\* the request has failed with the poll-transport failure, no poll has been
\* issued after the failed one, and no artifact fetch was issued.
C4_PollStatusFatal ==
    \A r \in live :
        (Len(pollLog[r]) >= 1 /\ LastPoll(r) = "status") =>
            /\ ProviderPollError(r)
            /\ sent[r]["veo.poll"] = Len(pollLog[r])
            /\ InFlight(r, "veo.poll") = 0
            /\ \A k \in 1..Len(pollLog[r]) : pollLog[r][k] = "status" => k = Len(pollLog[r])
            /\ sent[r]["gcs.fetch"] = 0
            /\ inflight[r] = <<>>

\* the 60th poll came back with a non-success status
C4_Witness ==
    \E r \in live :
        Len(pollLog[r]) = maxAttempts /\ LastPoll(r) = "status" /\ ProviderPollError(r)

\* the submit response is a failure: a non-success status, a body with an
\* error field, or a body without an operation name
SubmitFailure(resp) ==
    ~resp.throws /\ (~resp.ok \/ resp.error \/ ~Truthy(resp.name))

\* C5: once the submit came back with a non-success status, an error field
\* or no operation name, the request has failed with the submit failure and
\* no poll (and no sleep before one) has been issued for it.
C5_SubmitFailureFatal ==
    \A r \in live :
        (Len(submitLog[r]) >= 1 /\ SubmitFailure(submitLog[r][1])) =>
            /\ ProviderSubmitError(r)
            /\ sent[r]["veo.submit"] = 1
            /\ sent[r]["veo.poll"] = 0
            /\ sent[r]["veo.sleep"] = 0
            /\ inflight[r] = <<>>
            /\ pollLog[r] = <<>>

\* a submit answered with a success status, no error and no operation name
C5_Witness ==
    \E r \in live :
        /\ Len(submitLog[r]) = 1
        /\ submitLog[r][1].ok /\ ~submitLog[r][1].error /\ ~Truthy(submitLog[r][1].name)
        /\ FailedWith(r, "No operation name returned from Veo API")

\* {scriptText: "Hi", referenceImage: "data:image/png;base64,AAAA", provider: "veo"}
CanonicalTiny == Body(Str(Hi), Undefined, Str(ImgTiny), Undefined, Undefined, Veo, Undefined)

\* the same request with an image payload of 100 characters
CanonicalPng == Body(Str(Hi), Undefined, Str(ImgPng), Undefined, Undefined, Veo, Undefined)

\* {done: true, response: {videos: [{bytesBase64Encoded: "Zm9v"}]}}
MockDone ==
    [done |-> TRUE, error |-> FALSE,
     response |-> [present |-> TRUE,
                   videos |-> Array(<<[gcsUri |-> Undefined, bytesBase64Encoded |-> Str(Zm9v)]>>),
                   predictions |-> NoArray]]

\* what call r has received so far is what the mock backend of the scenario
\* gives: a credential and a token, a submit answered with an operation name,
\* a first poll answered with MockDone
MockBackend(r) ==
    /\ env.serviceAccount \/ env.accessToken
    /\ ~FailedWith(r, "auth failed")
    /\ \A k \in 1..Len(submitLog[r]) :
         /\ ~submitLog[r][k].throws /\ submitLog[r][k].ok
         /\ ~submitLog[r][k].error /\ Truthy(submitLog[r][k].name)
    /\ Len(pollLog[r]) >= 1 => (pollLog[r][1] = "done" /\ pollData[r] = MockDone)

\* data:video/mp4;base64,Zm9v
ArtifactZm9v ==
    Str(<<"d", "a", "t", "a", ":", "v", "i", "d", "e", "o", "/", "m", "p", "4", ";",
          "b", "a", "s", "e", "6", "4", ",", "Z", "m", "9", "v">>)

\* C6 as stated: the canonical request with the image data:image/png;base64,AAAA,
\* run against the mock backend, is answered with the artifact
\* data:video/mp4;base64,Zm9v.
C6_TinyImageYieldsArtifact ==
    \A r \in live :
        (body[r] = CanonicalTiny /\ MockBackend(r) /\ Responded(r)) =>
            (Succeeded(r) /\ LastResponse(r).videoUrl = ArtifactZm9v)

\* C6 amended: against the mock backend, the canonical request whose image
\* payload has 100 characters is answered, after one submit and one poll, with
\* the artifact data:video/mp4;base64,Zm9v; with the image
\* data:image/png;base64,AAAA it fails with 'Invalid reference image data'
\* and no submit is issued.
C6_EndToEnd ==
    \A r \in live :
        (MockBackend(r) /\ Responded(r)) =>
            /\ body[r] = CanonicalPng =>
                 /\ Succeeded(r)
                 /\ LastResponse(r).videoUrl = ArtifactZm9v
                 /\ sent[r]["veo.submit"] = 1 /\ sent[r]["veo.poll"] = 1
                 /\ sent[r]["gcs.fetch"] = 0
            /\ body[r] = CanonicalTiny =>
                 /\ FailedWith(r, "Invalid reference image data")
                 /\ sent[r]["veo.submit"] = 0

\* the canonical request with a 100-character payload was answered with the
\* artifact after a first poll that returned MockDone
C6_Witness ==
    \E r \in live :
        /\ body[r] = CanonicalPng /\ MockBackend(r)
        /\ pollLog[r] = <<"done">> /\ pollData[r] = MockDone
        /\ Succeeded(r) /\ LastResponse(r).videoUrl = ArtifactZm9v

\* the handler of call r has mapped the fields of a body without scriptText
\* whose prompt is a string
LegacyScript(r) ==
    pc[r] # "received" /\ body[r].scriptText.t = "undefined" /\ body[r].prompt.t = "string"

\* the text of p after the first script marker
AfterScriptMarker(p) ==
    SubSeq(p, IndexOf(p, ScriptMarker) + Len(ScriptMarker), Len(p))

\* s up to the first occurrence of one of the separators, s when none occurs
CutAtFirst(s, seps) ==
    LET cuts == {IndexOf(s, sep) : sep \in seps} \ {0}
    IN  IF cuts = {} THEN s
        ELSE SubSeq(s, 1, (CHOOSE k \in cuts : \A j \in cuts : k <= j) - 1)

\* C7 as stated: for a legacy-only request the resolved script text is the
\* text between the script marker and the style marker when both markers are
\* in the prompt, and the raw prompt in every other case.
C7_ScriptBetweenMarkersElsePrompt ==
    \A r \in live :
        LegacyScript(r) =>
            final[r].scriptText =
                IF IndexOf(body[r].prompt.s, ScriptMarker) > 0
                   /\ IndexOf(body[r].prompt.s, StyleMarker) > 0
                THEN Str(CutAtFirst(AfterScriptMarker(body[r].prompt.s), {StyleMarker}))
                ELSE body[r].prompt

\* C7 amended: for a legacy-only request the resolved script text is the part
\* of the prompt after the first script marker, cut at the next occurrence of
\* either marker, when the script marker is present and that part is not
\* empty; in every other case it is the raw prompt.
C7_ScriptFromLegacyPrompt ==
    \A r \in live :
        LegacyScript(r) =>
            LET p == body[r].prompt.s
                part == IF IndexOf(p, ScriptMarker) = 0 THEN <<>>
                        ELSE CutAtFirst(AfterScriptMarker(p), {ScriptMarker, StyleMarker})
            IN  final[r].scriptText = IF part = <<>> THEN Str(p) ELSE Str(part)

\* a prompt with both markers was mapped to the text between them
C7_Witness ==
    \E r \in live :
        /\ LegacyScript(r)
        /\ body[r].prompt.s = ScriptMarker \o Hi \o StyleMarker
        /\ final[r].scriptText = Str(Hi)

\* C8: for a legacy-only request without a direction the resolved direction
\* is the text of the prompt before the script marker when that marker is
\* present, and the empty string when it is absent.
C8_DirectionFromLegacyPrompt ==
    \A r \in live :
        (pc[r] # "received" /\ body[r].direction.t = "undefined"
         /\ body[r].scriptText.t = "undefined" /\ body[r].prompt.t = "string") =>
            LET p == body[r].prompt.s
            IN  final[r].direction =
                    IF IndexOf(p, ScriptMarker) > 0
                    THEN Str(SubSeq(p, 1, IndexOf(p, ScriptMarker) - 1))
                    ELSE Str(<<>>)

NoScript(b) == ~Truthy(b.scriptText) /\ ~Truthy(b.prompt)

NoImage(b) == ~Truthy(b.referenceImage) /\ ~Truthy(b.imageUrl)

\* C9: once the handler has run on a body without scriptText and prompt, or
\* without referenceImage and imageUrl, the call has been answered once, with
\* status 400 and the message of the missing field (the script's when both
\* are missing), no provider was dispatched and no remote call was issued.
C9_MissingField ==
    \A r \in live :
        (pc[r] # "received" /\ (NoScript(body[r]) \/ NoImage(body[r]))) =>
            /\ Responded(r)
            /\ Len(responses[r]) = 1
            /\ LastResponse(r).status = 400
            /\ LastResponse(r).error =
                 IF NoScript(body[r])
                 THEN "Missing required fields: scriptText or prompt"
                 ELSE "Missing required fields: referenceImage or imageUrl"
            /\ provider[r] = "none"
            /\ \A k \in Kinds : sent[r][k] = 0
            /\ inflight[r] = <<>>

\* a body with a script and no image was rejected
C9_Witness ==
    \E r \in live :
        /\ ~NoScript(body[r]) /\ NoImage(body[r])
        /\ Responded(r)
        /\ LastResponse(r).status = 400
        /\ LastResponse(r).error = "Missing required fields: referenceImage or imageUrl"

\* what follows data:video/mp4;base64, in url
Payload(url) == SubSeq(url, Len(VideoDataPrefix) + 1, Len(url))

OnlyPredictionBytes(data) ==
    /\ data.done /\ ~data.error /\ data.response.present
    /\ ~data.response.videos.present
    /\ HasFirst(data.response.predictions)
    /\ Truthy(data.response.predictions.items[1].bytesBase64Encoded)
    /\ ~Truthy(data.response.predictions.items[1].gcsUri)

\* C11: once a poll came back done with a body that carries only
\* predictions[0].bytesBase64Encoded (no videos array, no gcsUri), the request
\* has succeeded with the artifact data:video/mp4;base64,<that payload>, and
\* no storage fetch was issued: rules 1 and 2 did not match and rule 3 did.
C11_PredictionBytes ==
    \A r \in live :
        (Len(pollLog[r]) >= 1 /\ LastPoll(r) = "done" /\ OnlyPredictionBytes(pollData[r])) =>
            /\ Succeeded(r)
            /\ LastResponse(r).videoUrl =
                 DataUri(pollData[r].response.predictions.items[1].bytesBase64Encoded.s)
            /\ sent[r]["gcs.fetch"] = 0
            /\ inflight[r] = <<>>

\* a request answered with the payload Zm9v of predictions[0]
C11_Witness ==
    \E r \in live :
        /\ Len(pollLog[r]) >= 1 /\ LastPoll(r) = "done"
        /\ OnlyPredictionBytes(pollData[r])
        /\ Succeeded(r) /\ LastResponse(r).videoUrl = ArtifactZm9v

\* result carries one of the two fields the extraction reads
HasShape(array) ==
    /\ HasFirst(array)
    /\ Truthy(array.items[1].gcsUri) \/ Truthy(array.items[1].bytesBase64Encoded)

\* the body of a completed operation has none of the four shapes
NoShape(data) ==
    /\ data.done /\ ~data.error
    /\ ~HasShape(data.response.videos)
    /\ ~HasShape(data.response.predictions)

\* C12: once a poll came back done, without an error, with a body that has
\* none of the four shapes (the response body may be absent altogether), the
\* request has failed with 'No video data in completed operation', no poll
\* was issued after that one and no storage fetch was issued.
C12_NoShapeNoArtifact ==
    \A r \in live :
        (Len(pollLog[r]) >= 1 /\ LastPoll(r) = "done" /\ NoShape(pollData[r])) =>
            /\ NoArtifactError(r)
            /\ sent[r]["veo.poll"] = Len(pollLog[r])
            /\ sent[r]["gcs.fetch"] = 0
            /\ inflight[r] = <<>>

\* a request failed on a completed operation without a response body
C12_Witness ==
    \E r \in live :
        /\ Len(pollLog[r]) >= 1 /\ LastPoll(r) = "done"
        /\ ~pollData[r].response.present
        /\ NoArtifactError(r)

\* the submit call of request r is in flight
Submitted(r) == Awaiting(r, "veo.submit")

\* the request body that call carries
SubmitBody(r) ==
    inflight[r][CHOOSE n \in 1..Len(inflight[r]) : inflight[r][n].kind = "veo.submit"].arg

\* the five primary accents and the text that names each in a negative prompt
PrimaryAccents ==
    <<[accent |-> American, text |-> AmericanAccent],
      [accent |-> British, text |-> BritishAccent],
      [accent |-> Australian, text |-> AustralianAccent],
      [accent |-> Indian, text |-> IndianAccent],
      [accent |-> SouthAfrican, text |-> SouthAfricanAccent]>>

Primary == {PrimaryAccents[k].accent : k \in 1..Len(PrimaryAccents)}

\* the texts of the primary accents from position k on, in their order,
\* without that of accent a, separated by a comma and a space
RECURSIVE OthersFrom(_, _)
OthersFrom(a, k) ==
    IF k > Len(PrimaryAccents) THEN <<>>
    ELSE IF PrimaryAccents[k].accent = a THEN OthersFrom(a, k + 1)
    ELSE LET rest == OthersFrom(a, k + 1)
         IN  IF rest = <<>> THEN PrimaryAccents[k].text
             ELSE PrimaryAccents[k].text \o CommaSpace \o rest

\* text names the four primary accents other than a, and not a
NamesTheOthers(text, a) ==
    /\ text = OthersFrom(a, 1)
    /\ \A k \in 1..Len(PrimaryAccents) :
         (IndexOf(text, PrimaryAccents[k].text) > 0) = (PrimaryAccents[k].accent # a)

\* C13: the seed the submit carries is a function of voiceAccent alone: each
\* of the ten accents of the table gives its own integer (south-african
\* 56789), any other accent gives the american seed 12345, and for
\* south-african the negative prompt names exactly the American, British,
\* Australian and Indian accents.
C13_SeedOfAccent ==
    \A r \in live :
        (Submitted(r) /\ body[r].voiceAccent.t = "string") =>
            LET a == body[r].voiceAccent.s
            IN  /\ a \in DOMAIN seedMap => SubmitBody(r).seed = Number(seedMap[a])
                /\ a \notin DOMAIN seedMap => SubmitBody(r).seed = Number(12345)
                /\ a = SouthAfrican =>
                     /\ SubmitBody(r).seed = Number(56789)
                     /\ SubmitBody(r).negativePrompt =
                          Str(List4(AmericanAccent, BritishAccent, AustralianAccent, IndianAccent))

\* C14 as stated: for each of the five primary accents the negativePrompt
\* lists exactly the four other primary accents and never the accent itself;
\* for every female variant and every accent not in the table it is the
\* empty string.
C14_EmptyForFemaleAndUnmapped ==
    \A r \in live :
        (Submitted(r) /\ body[r].voiceAccent.t = "string") =>
            LET a == body[r].voiceAccent.s
            IN  IF a \in Primary
                THEN /\ SubmitBody(r).negativePrompt.t = "string"
                     /\ NamesTheOthers(SubmitBody(r).negativePrompt.s, a)
                ELSE SubmitBody(r).negativePrompt = Str(<<>>)

\* C14 amended: the negativePrompt is determined by voiceAccent with its
\* first -female removed.  When that is one of the five primary accents (so
\* for each primary accent and each of its female variants) the negativePrompt
\* lists exactly the four other primary accents and never that accent; when
\* it is another string that names no property the table inherits, the
\* negativePrompt is the empty string; when it names an inherited property,
\* the request body carries no negativePrompt string.
C14_NegativePromptOfAccent ==
    \A r \in live :
        (Submitted(r) /\ body[r].voiceAccent.t = "string") =>
            LET key == Replace(body[r].voiceAccent.s, FemaleSuffix, <<>>)
                negativePrompt == SubmitBody(r).negativePrompt
            IN  /\ key \in Primary =>
                     /\ negativePrompt.t = "string"
                     /\ NamesTheOthers(negativePrompt.s, key)
                /\ (key \notin Primary /\ Inherited(key) = "undefined") =>
                     negativePrompt = Str(<<>>)
                /\ Inherited(key) # "undefined" => negativePrompt.t # "string"

\* a submit for british-female carries the negative prompt of british
C14_Witness ==
    \E r \in live :
        /\ Submitted(r)
        /\ body[r].voiceAccent = Str(Female(British))
        /\ SubmitBody(r).negativePrompt =
             Str(List4(AmericanAccent, AustralianAccent, IndianAccent, SouthAfricanAccent))

LastStatus(r) == statusLog[r][Len(statusLog[r])]

\* the first n status responses of call r were successful and not terminal
NotTerminal(r, n) ==
    Len(statusLog[r]) >= n /\ \A k \in 1..n : statusLog[r][k] = "pending"

HedraTimeout(r) == FailedWith(r, "Hedra video generation timed out")

\* C15: a hedra request never issues more than 30 status polls; once a poll
\* came back completed with a video URL the request has succeeded with that
\* URL, every earlier poll having been not terminal; once a poll came back
\* failed the request has failed and no poll was issued after it; and once
\* the first 30 polls were all not terminal, 30 polls have been issued, the
\* next step of the request exists and answers with the timeout failure, and
\* no other answer is ever given.
C15_HedraStatusPolls ==
    /\ [](\A r \in live :
            /\ sent[r]["hedra.status"] <= hedraMaxAttempts
            /\ (Len(statusLog[r]) >= 1 /\ LastStatus(r) = "completed") =>
                 /\ Succeeded(r)
                 /\ Truthy(LastResponse(r).videoUrl)
                 /\ NotTerminal(r, Len(statusLog[r]) - 1)
                 /\ sent[r]["hedra.status"] = Len(statusLog[r])
                 /\ inflight[r] = <<>>
            /\ (Len(statusLog[r]) >= 1 /\ LastStatus(r) = "failed") =>
                 /\ FailedWith(r, "Hedra video generation failed")
                 /\ NotTerminal(r, Len(statusLog[r]) - 1)
                 /\ sent[r]["hedra.status"] = Len(statusLog[r])
                 /\ inflight[r] = <<>>
            /\ NotTerminal(r, hedraMaxAttempts) =>
                 /\ sent[r]["hedra.status"] = hedraMaxAttempts
                 /\ Len(statusLog[r]) = hedraMaxAttempts
                 /\ InFlight(r, "hedra.status") = 0
                 /\ pc[r] \in {"hedra.sleep", "responded"}
                 /\ Responded(r) => HedraTimeout(r)
                 /\ ~Responded(r) => ENABLED HedraSleepDone(r))
    /\ [][\A r \in live :
            (NotTerminal(r, hedraMaxAttempts) /\ ~Responded(r) /\ pc'[r] # pc[r]) =>
                /\ HedraTimeout(r)'
                /\ sent'[r] = sent[r]]_vars

\* the request timed out after 30 status polls that were not terminal
C15_Witness ==
    \E r \in live :
        /\ NotTerminal(r, hedraMaxAttempts)
        /\ HedraTimeout(r)
        /\ sent[r]["hedra.status"] = hedraMaxAttempts

ConfigurationError(r) == FailedWith(r, "KLING_API_KEY not configured")

NotImplemented(r) == FailedWith(r, "Kling integration not yet implemented")

\* C16: a request dispatched to the kling provider never succeeds and never
\* issues a remote call; its one step answers, with the configuration failure
\* when no API key is configured and with the not-implemented failure when
\* one is.
C16_KlingAlwaysFails ==
    \A r \in live :
        provider[r] = "kling" =>
            /\ ~Succeeded(r)
            /\ \A k \in Kinds : sent[r][k] = 0
            /\ inflight[r] = <<>>
            /\ pc[r] \in {"kling", "responded"}
            /\ ~Responded(r) => ENABLED KlingStart(r)
            /\ Responded(r) =>
                 IF env.klingApiKey THEN NotImplemented(r) ELSE ConfigurationError(r)

\* a kling request failed as not implemented, a key being configured
C16_Witness ==
    \E r \in live : provider[r] = "kling" /\ env.klingApiKey /\ NotImplemented(r)

\* the points at which a handler is suspended on a remote call or a timer,
\* and the kind of call each awaits
Awaits ==
    ("veo.auth" :> "auth.token") @@ ("veo.submit" :> "veo.submit")
    @@ ("veo.sleep" :> "veo.sleep") @@ ("veo.poll" :> "veo.poll")
    @@ ("veo.fetch.videos" :> "gcs.fetch") @@ ("veo.fetch.predictions" :> "gcs.fetch")
    @@ ("hedra.character" :> "hedra.character") @@ ("hedra.tts" :> "hedra.tts")
    @@ ("hedra.video" :> "hedra.video") @@ ("hedra.status" :> "hedra.status")
    @@ ("hedra.sleep" :> "hedra.sleep")

\* call r has a step to take: it is at a point from which its handler runs
\* on, or the one call it awaits is in flight and its answer resumes it
CanStep(r) ==
    \/ pc[r] \in {"received", "veo", "veo.loop", "hedra", "kling"}
    \/ /\ pc[r] \in DOMAIN Awaits
       /\ Len(inflight[r]) = 1
       /\ inflight[r][1].kind = Awaits[pc[r]]

\* the answers to a poll that make the request fail
PollFailures == {"throws", "status", "done.error"}

\* C17: a call is answered at most once, and as long as it is not answered
\* it has a step to take; the answer is either a success that carries an
\* artifact or an error that carries none; the submit (and each Hedra create
\* call) is issued at most once; a poll that failed is the last poll issued;
\* and once the call is answered nothing is in flight for it and no step
\* changes its response or issues a remote call.
C17_OneResponseNoRetry ==
    /\ [](\A r \in live :
            /\ Len(responses[r]) <= 1
            /\ Responded(r) <=> Len(responses[r]) = 1
            /\ ~Responded(r) => CanStep(r)
            /\ Responded(r) =>
                 /\ inflight[r] = <<>>
                 /\ IF LastResponse(r).success
                    THEN LastResponse(r).status = 200 /\ Truthy(LastResponse(r).videoUrl)
                    ELSE /\ LastResponse(r).status \in {400, 500}
                         /\ LastResponse(r).videoUrl = Undefined
                         /\ LastResponse(r).videoBase64 = Undefined
            /\ sent[r]["veo.submit"] <= 1
            /\ sent[r]["hedra.character"] <= 1
            /\ sent[r]["hedra.video"] <= 1
            /\ \A k \in 1..Len(pollLog[r]) :
                 pollLog[r][k] \in PollFailures =>
                     /\ k = Len(pollLog[r])
                     /\ sent[r]["veo.poll"] = k
                     /\ Responded(r) /\ ~LastResponse(r).success
            /\ \A k \in 1..Len(statusLog[r]) :
                 statusLog[r][k] \in {"throws", "status", "failed"} =>
                     /\ k = Len(statusLog[r])
                     /\ sent[r]["hedra.status"] = k
                     /\ Responded(r) /\ ~LastResponse(r).success)
    /\ [][\A r \in live :
            Responded(r) =>
                /\ responses'[r] = responses[r]
                /\ sent'[r] = sent[r]
                /\ inflight'[r] = inflight[r]
                /\ pc'[r] = pc[r]]_vars

\* a request failed on its second poll, after one submit
C17_Witness ==
    \E r \in live :
        /\ pollLog[r] = <<"pending", "throws">>
        /\ FailedWith(r, "fetch failed")
        /\ sent[r]["veo.submit"] = 1 /\ sent[r]["veo.poll"] = 2
        /\ inflight[r] = <<>>

\* everything the model holds about call q
Local(q) ==
    <<body[q], pc[q], provider[q], operationName[q], attempts[q], pollData[q],
      hedraI[q], inflight[q], sent[q], final[q], submitLog[q], pollLog[q],
      statusLog[q], answerLog[q], responses[q]>>

\* C18: of two calls in progress at the same time, with the same content,
\* each issues its own submit, polls the operation name its own submit
\* returned, and counts its own attempts; the state of each, and its answer,
\* follow from the responses it received itself (the timeout after 60 of its
\* own polls not done, success on its own poll done, failure on its own poll
\* failed), whatever the other call has come to; an unanswered call has a
\* step to take whether or not the other one is answered; and every step
\* changes what belongs to one call only.
C18_IndependentCalls ==
    /\ [](\A r \in live :
            /\ sent[r]["veo.submit"] = IF pc[r] \in {"received", "veo"} THEN 0 ELSE 1
            /\ Len(submitLog[r]) + InFlight(r, "veo.submit") = sent[r]["veo.submit"]
            /\ \A n \in 1..Len(inflight[r]) :
                 inflight[r][n].kind = "veo.poll" =>
                     /\ Len(submitLog[r]) = 1
                     /\ inflight[r][n].arg = submitLog[r][1].name.s
                     /\ operationName[r] = submitLog[r][1].name
            /\ attempts[r] = sent[r]["veo.poll"]
            /\ Len(pollLog[r]) + InFlight(r, "veo.poll") = sent[r]["veo.poll"]
            /\ attempts[r] <= maxAttempts
            /\ AllPending(r, Len(pollLog[r]) - 1)
            /\ ~Responded(r) => (AllPending(r, Len(pollLog[r])) /\ CanStep(r))
            /\ Responded(r) =>
                 /\ Len(pollLog[r]) >= 1
                 /\ LastPoll(r) = "pending" =>
                      (ProviderTimeout(r) /\ Len(pollLog[r]) = maxAttempts)
                 /\ LastPoll(r) = "done" =>
                      (Succeeded(r) /\ LastResponse(r).videoUrl = ArtifactZm9v)
                 /\ LastPoll(r) = "status" => ProviderPollError(r))
    /\ [][\E r \in live : \A q \in live \ {r} : Local(q)' = Local(q)]_vars

\* of two calls with the same content, one timed out after its 60 polls and
\* the other succeeded on its first poll of another operation
C18_Witness ==
    \E r \in live : \E q \in live \ {r} :
        /\ body[r] = body[q]
        /\ ProviderTimeout(r) /\ sent[r]["veo.poll"] = maxAttempts
        /\ Succeeded(q) /\ sent[q]["veo.poll"] = 1
        /\ operationName[r] # operationName[q]
        /\ sent[r]["veo.submit"] = 1 /\ sent[q]["veo.submit"] = 1

\* C19: every response to a call carries the requestId of that call: the
\* success response, the provider-failure responses and the validation
\* failure (status 400) responses.
C19_RequestIdInEveryResponse ==
    \A r \in live :
        \A k \in 1..Len(responses[r]) : responses[r][k].requestId = r

\* the handler of call r has run and found a script and an image
Validated(r) == pc[r] # "received" /\ ~NoScript(body[r]) /\ ~NoImage(body[r])

\* the remote calls and timers each provider function issues, and the points
\* at which it can be suspended
KindsOf(p) ==
    IF p = "veo" THEN {"auth.token", "veo.submit", "veo.sleep", "veo.poll", "gcs.fetch"}
    ELSE IF p = "hedra"
    THEN {"hedra.character", "hedra.tts", "hedra.video", "hedra.status", "hedra.sleep"}
    ELSE {}

PointsOf(p) ==
    IF p = "veo"
    THEN {"veo", "veo.auth", "veo.submit", "veo.loop", "veo.sleep", "veo.poll",
          "veo.fetch.videos", "veo.fetch.predictions"}
    ELSE IF p = "hedra"
    THEN {"hedra", "hedra.character", "hedra.tts", "hedra.video", "hedra.status",
          "hedra.sleep"}
    ELSE IF p = "kling" THEN {"kling"}
    ELSE {"received"}

\* C20: for a validated request one provider is chosen, from the provider
\* field: hedra for "hedra", kling for "kling", veo when the field is absent
\* or "veo" (and for any other value); the request is only ever inside that
\* provider's function and only that provider's remote calls are issued for
\* it, also after the provider failed; the choice never changes.  A request
\* that is not validated has no provider.
C20_OneProviderChosenOnce ==
    /\ [](\A r \in live :
            /\ Validated(r) =>
                 /\ body[r].provider = Hedra => provider[r] = "hedra"
                 /\ body[r].provider = Kling => provider[r] = "kling"
                 /\ body[r].provider \notin {Hedra, Kling} => provider[r] = "veo"
            /\ ~Validated(r) => provider[r] = "none"
            /\ pc[r] \in PointsOf(provider[r]) \cup {"responded"}
            /\ \A k \in Kinds : sent[r][k] > 0 => k \in KindsOf(provider[r]))
    /\ [][\A r \in live : provider[r] # "none" => provider'[r] = provider[r]]_vars

\* a request for hedra failed at the character call, and nothing of veo or
\* kling ran for it
C20_Witness ==
    \E r \in live :
        /\ body[r].provider = Hedra /\ provider[r] = "hedra"
        /\ FailedWith(r, "Hedra init error: ")
        /\ sent[r]["hedra.character"] = 1
        /\ sent[r]["veo.submit"] = 0 /\ sent[r]["auth.token"] = 0

\* the four shapes of the body of a completed operation, in the order of the
\* search
Rule1(data) ==
    HasFirst(data.response.videos) /\ Truthy(data.response.videos.items[1].gcsUri)

Rule2(data) ==
    HasFirst(data.response.videos)
    /\ Truthy(data.response.videos.items[1].bytesBase64Encoded)

Rule3(data) ==
    HasFirst(data.response.predictions)
    /\ Truthy(data.response.predictions.items[1].bytesBase64Encoded)

Rule4(data) ==
    HasFirst(data.response.predictions)
    /\ Truthy(data.response.predictions.items[1].gcsUri)

\* the last poll of call r came back done without an error
Completed(r) == Len(pollLog[r]) >= 1 /\ LastPoll(r) = "done"

\* the answers call r has received to its storage fetches, as a list of the
\* points it awaited them at
FetchedAt(r) == [k \in 1..Len(answerLog[r]) |-> answerLog[r][k].at]

AllFetchesOk(r) == \A k \in 1..Len(answerLog[r]) : answerLog[r][k].kind = "ok"

\* call r succeeded with the object its k-th fetch read
ReturnedFetched(r, k) ==
    /\ Succeeded(r)
    /\ LastResponse(r).videoUrl = DataUri(Base64(answerLog[r][k].buffer))

\* call r succeeded with an inline payload
ReturnedInline(r, payload) ==
    Succeeded(r) /\ LastResponse(r).videoUrl = DataUri(payload.s)

\* C21: for a completed operation, as long as every storage fetch succeeds,
\* the artifact comes from the first rule that matches in the order
\* videos[0].gcsUri, videos[0].bytesBase64Encoded,
\* predictions[0].bytesBase64Encoded, predictions[0].gcsUri, and nothing of a
\* later rule is done: the only fetch ever issued is that of the first
\* matching rule, when that rule is a gcsUri.
C21_FirstMatchWins ==
    \A r \in live :
        (Completed(r) /\ AllFetchesOk(r)) =>
            LET data == pollData[r]
            IN  /\ Rule1(data) =>
                     /\ sent[r]["gcs.fetch"] = 1
                     /\ pc[r] \in {"veo.fetch.videos", "responded"}
                     /\ Responded(r) =>
                          (FetchedAt(r) = <<"veo.fetch.videos">> /\ ReturnedFetched(r, 1))
                /\ (~Rule1(data) /\ Rule2(data)) =>
                     /\ sent[r]["gcs.fetch"] = 0
                     /\ ReturnedInline(r, data.response.videos.items[1].bytesBase64Encoded)
                /\ (~Rule1(data) /\ ~Rule2(data) /\ Rule3(data)) =>
                     /\ sent[r]["gcs.fetch"] = 0
                     /\ ReturnedInline(r, data.response.predictions.items[1].bytesBase64Encoded)
                /\ (~Rule1(data) /\ ~Rule2(data) /\ ~Rule3(data) /\ Rule4(data)) =>
                     /\ sent[r]["gcs.fetch"] = 1
                     /\ pc[r] \in {"veo.fetch.predictions", "responded"}
                     /\ Responded(r) =>
                          (FetchedAt(r) = <<"veo.fetch.predictions">> /\ ReturnedFetched(r, 1))

\* all four shapes present: the artifact is the object of videos[0].gcsUri
C21_Witness ==
    \E r \in live :
        /\ Completed(r) /\ AllFetchesOk(r)
        /\ Rule1(pollData[r]) /\ Rule2(pollData[r]) /\ Rule3(pollData[r]) /\ Rule4(pollData[r])
        /\ FetchedAt(r) = <<"veo.fetch.videos">>
        /\ answerLog[r][1].buffer = <<255>>
        /\ ReturnedFetched(r, 1)

\* the fetch of videos[0].gcsUri of call r was answered, and failed
VideosFetchFailed(r) ==
    /\ Len(answerLog[r]) >= 1
    /\ answerLog[r][1].at = "veo.fetch.videos"
    /\ answerLog[r][1].kind \in {"status", "throws"}

\* C22: once the fetch of videos[0].gcsUri has failed (a non-success status
\* or a rejected fetch) the request has not failed on that account: it has
\* succeeded with videos[0].bytesBase64Encoded when that is present, else
\* with predictions[0].bytesBase64Encoded when that is present, else it has
\* gone on to fetch predictions[0].gcsUri when that is present (and succeeds
\* with the object read, or ends with NoArtifact when that fetch fails too),
\* and only when none of the three is present has it ended with NoArtifact.
C22_FetchFailureFallsThrough ==
    \A r \in live :
        VideosFetchFailed(r) =>
            LET data == pollData[r]
            IN  /\ Completed(r) /\ Rule1(data)
                /\ ~FailedWith(r, "fetch failed")
                /\ Rule2(data) =>
                     /\ ReturnedInline(r, data.response.videos.items[1].bytesBase64Encoded)
                     /\ sent[r]["gcs.fetch"] = 1
                /\ (~Rule2(data) /\ Rule3(data)) =>
                     /\ ReturnedInline(r, data.response.predictions.items[1].bytesBase64Encoded)
                     /\ sent[r]["gcs.fetch"] = 1
                /\ (~Rule2(data) /\ ~Rule3(data) /\ Rule4(data)) =>
                     /\ sent[r]["gcs.fetch"] = 2
                     /\ pc[r] \in {"veo.fetch.predictions", "responded"}
                     /\ Responded(r) =>
                          /\ FetchedAt(r) = <<"veo.fetch.videos", "veo.fetch.predictions">>
                          /\ IF answerLog[r][2].kind = "ok"
                             THEN ReturnedFetched(r, 2)
                             ELSE NoArtifactError(r)
                /\ (~Rule2(data) /\ ~Rule3(data) /\ ~Rule4(data)) =>
                     (NoArtifactError(r) /\ sent[r]["gcs.fetch"] = 1)

\* the fetch of videos[0].gcsUri was rejected, and the artifact is the object
\* of predictions[0].gcsUri
C22_Witness ==
    \E r \in live :
        /\ VideosFetchFailed(r) /\ answerLog[r][1].kind = "throws"
        /\ Len(answerLog[r]) = 2 /\ answerLog[r][2].kind = "ok"
        /\ answerLog[r][2].buffer = <<102, 111, 111>>
        /\ Succeeded(r) /\ LastResponse(r).videoUrl = ArtifactZm9v

\* C23: when extraction ends with NoArtifact, the error answered to the
\* caller carries the body of the completed operation (JSON.stringify of
\* pollData) next to its fixed text.
C23_NoArtifactCarriesBody ==
    \A r \in live :
        NoArtifactError(r) => LastResponse(r).detail = "JSON.stringify(pollData)"

\* the poll calls of call r now in flight
PollsInFlight(r) ==
    {n \in 1..Len(inflight[r]) : inflight[r][n].kind = "veo.poll"}

\* C24: every Veo poll call is issued at the end of one sleep that began after
\* the submit or the previous poll (so the sleeps begun are the polls issued,
\* plus the one in progress), carries the operation name the submit
\* returned, and advances the attempt counter by one; the counter equals the
\* number of poll calls issued and is at most 60.
C24_SleepThenPoll ==
    /\ [](\A r \in live :
            /\ attempts[r] = sent[r]["veo.poll"]
            /\ attempts[r] <= maxAttempts
            /\ sent[r]["veo.sleep"] = sent[r]["veo.poll"] + InFlight(r, "veo.sleep")
            /\ InFlight(r, "veo.sleep") + InFlight(r, "veo.poll") <= 1
            /\ \A n \in PollsInFlight(r) :
                  /\ Len(submitLog[r]) = 1
                  /\ Truthy(submitLog[r][1].name)
                  /\ inflight[r][n].arg = submitLog[r][1].name.s)
    /\ [][\A r \in live :
            sent'[r]["veo.poll"] # sent[r]["veo.poll"] =>
                /\ InFlight(r, "veo.sleep") = 1
                /\ InFlight(r, "veo.sleep")' = 0
                /\ sent'[r]["veo.poll"] = sent[r]["veo.poll"] + 1
                /\ attempts'[r] = attempts[r] + 1
                /\ operationName'[r] = operationName[r]]_vars

\* the 60th poll of a call is in flight, after its 60th sleep
C24_Witness ==
    \E r \in live :
        /\ attempts[r] = maxAttempts
        /\ sent[r]["veo.sleep"] = maxAttempts
        /\ \E n \in PollsInFlight(r) : inflight[r][n].arg = Op1

\* the kinds of the answers call r received at point `at`
AnswersAt(r, at) ==
    {answerLog[r][k].kind : k \in {n \in 1..Len(answerLog[r]) : answerLog[r][n].at = at}}

\* the call of kind k of call r has been issued and has come back
Finished(r, k) == sent[r][k] = 1 /\ InFlight(r, k) = 0

\* C25: the Hedra path issues character-create, audio synthesis,
\* video-create and the status polls in that order, each at most once before
\* the polls, and each only after the one before has come back with success:
\* after a non-success answer to character-create no audio synthesis, no
\* video-create and no status poll is issued, and after a non-success answer
\* to video-create no status poll is issued.
C25_HedraStepOrder ==
    \A r \in live :
        /\ sent[r]["hedra.character"] <= 1
        /\ sent[r]["hedra.tts"] <= 1
        /\ sent[r]["hedra.video"] <= 1
        /\ sent[r]["hedra.tts"] = 1 =>
              (Finished(r, "hedra.character") /\ AnswersAt(r, "hedra.character") = {"ok"})
        /\ sent[r]["hedra.video"] = 1 => Finished(r, "hedra.tts")
        /\ sent[r]["hedra.status"] >= 1 =>
              (Finished(r, "hedra.video") /\ AnswersAt(r, "hedra.video") = {"ok"})
        /\ AnswersAt(r, "hedra.character") \cap {"status", "throws"} # {} =>
              /\ sent[r]["hedra.tts"] = 0
              /\ sent[r]["hedra.video"] = 0
              /\ sent[r]["hedra.status"] = 0
              /\ Responded(r) /\ ~Succeeded(r)
        /\ AnswersAt(r, "hedra.video") \cap {"status", "throws"} # {} =>
              /\ sent[r]["hedra.status"] = 0
              /\ Responded(r) /\ ~Succeeded(r)

\* a Hedra call whose video-create came back with a non-success status after
\* its character-create and audio synthesis succeeded
C25_Witness ==
    \E r \in live :
        /\ AnswersAt(r, "hedra.character") = {"ok"}
        /\ Finished(r, "hedra.tts")
        /\ AnswersAt(r, "hedra.video") = {"status"}
        /\ FailedWith(r, "Hedra video error: ")

\* C26: a poll response that reports done together with an error fails the
\* request with the failure of the remote operation, also when it carries
\* videos or predictions: the request is answered at once with
\* 'Veo generation failed', no artifact is returned from a body whose error
\* is set, and no storage fetch is issued for it.
C26_ErrorBeforePayload ==
    \A r \in live :
        /\ (Len(pollLog[r]) >= 1 /\ LastPoll(r) = "done.error") =>
              /\ ProviderOperationError(r)
              /\ sent[r]["gcs.fetch"] = 0
        /\ pollData[r].error =>
              /\ ~Succeeded(r)
              /\ sent[r]["gcs.fetch"] = 0

\* the operation is done with an error and its body carries
\* videos[0].gcsUri and videos[0].bytesBase64Encoded
C26_Witness ==
    \E r \in live :
        /\ Len(pollLog[r]) >= 1 /\ LastPoll(r) = "done.error"
        /\ pollData[r].response.present
        /\ Rule1(pollData[r]) /\ Rule2(pollData[r])
        /\ ProviderOperationError(r)

\* neither a service account nor VEO_ACCESS_TOKEN is configured
NoCredential == ~env.serviceAccount /\ ~env.accessToken

\* the reference image of call r, without its data-URI prefix, has fewer than
\* 100 characters
ShortImage(r) == Len(StripImagePrefix(final[r].referenceImage.s)) < MinImageLen

\* C27: a call dispatched to Veo is rejected by the local checks before any
\* remote Veo call: without a credential it fails with the credential error
\* and issues no remote call at all, and with a reference image payload of
\* fewer than 100 characters it fails and issues neither a submit nor a poll.
C27_LocalChecksFirst ==
    \A r \in live :
        provider[r] = "veo" =>
            /\ NoCredential =>
                  /\ \A k \in Kinds : sent[r][k] = 0
                  /\ pc[r] \in {"veo", "responded"}
                  /\ Responded(r) =>
                        FailedWith(r, "Veo video generation requires service account or VEO_ACCESS_TOKEN")
            /\ ShortImage(r) =>
                  /\ sent[r]["veo.submit"] = 0
                  /\ sent[r]["veo.poll"] = 0
                  /\ sent[r]["gcs.fetch"] = 0
                  /\ pc[r] \in {"veo", "veo.auth", "responded"}
                  /\ Responded(r) => ~Succeeded(r)

\* with a service account, a call whose image payload has 99 characters got
\* its token and failed on the image without a submit
C27_Witness ==
    \E r \in live :
        /\ provider[r] = "veo" /\ env.serviceAccount
        /\ Len(StripImagePrefix(final[r].referenceImage.s)) = MinImageLen - 1
        /\ Finished(r, "auth.token")
        /\ FailedWith(r, "Invalid reference image data")
        /\ sent[r]["veo.submit"] = 0

\* the k-th status response of call r was completed without a video_url;
\* under SpecEnded no status response is in progress, so these are the
\* responses the program neither returns nor throws on
CompletedNoUrl(r, k) == statusLog[r][k] = "pending"

\* C28: a Hedra status response that is completed but has no video_url does
\* not end the polling: after it the call sleeps and polls again, it is
\* answered neither with success nor with 'Hedra video generation failed',
\* and when all 30 status responses are of that kind the call is answered
\* with 'Hedra video generation timed out' after exactly 30 polls.
C28_CompletedWithoutUrlPending ==
    /\ [](\A r \in live :
            (Len(statusLog[r]) >= 1 /\ CompletedNoUrl(r, Len(statusLog[r]))) =>
                /\ ~Succeeded(r)
                /\ ~FailedWith(r, "Hedra video generation failed")
                /\ IF Len(statusLog[r]) < hedraMaxAttempts
                   THEN /\ ~Responded(r)
                        /\ InFlight(r, "hedra.sleep") + InFlight(r, "hedra.status") = 1
                        /\ sent[r]["hedra.status"] =
                              Len(statusLog[r]) + InFlight(r, "hedra.status")
                   ELSE /\ sent[r]["hedra.status"] = hedraMaxAttempts
                        /\ pc[r] \in {"hedra.sleep", "responded"}
                        /\ Responded(r) => HedraTimeout(r))
    /\ [][\A r \in live :
            (/\ Len(statusLog[r]) = hedraMaxAttempts
             /\ CompletedNoUrl(r, hedraMaxAttempts)
             /\ pc[r] = "hedra.sleep"
             /\ pc'[r] # pc[r]) => HedraTimeout(r)']_vars

\* 30 status responses, all completed without a video_url, and the timeout
C28_Witness ==
    \E r \in live :
        /\ Len(statusLog[r]) = hedraMaxAttempts
        /\ \A k \in 1..hedraMaxAttempts : CompletedNoUrl(r, k)
        /\ HedraTimeout(r)

\* the k-th answer to a storage fetch of call r was a failure
FetchFailed(r, k) == answerLog[r][k].kind \in {"status", "throws"}

\* C29: a failed storage fetch is never answered to the caller as an error
\* of its own: a Veo call that has issued a fetch ends with the artifact or
\* with 'No video data in completed operation'; when predictions[0].gcsUri
\* is the only shape of the body and its fetch failed, and when
\* videos[0].gcsUri is the only shape and its fetch failed, the call has
\* ended with 'No video data in completed operation'.
C29_FetchFailureIsNoArtifact ==
    \A r \in live :
        LET data == pollData[r]
        IN  /\ (sent[r]["gcs.fetch"] >= 1 /\ Responded(r)) =>
                  (Succeeded(r) \/ NoArtifactError(r))
            /\ (/\ ~Rule1(data) /\ ~Rule2(data) /\ ~Rule3(data) /\ Rule4(data)
                /\ Len(answerLog[r]) = 1 /\ FetchFailed(r, 1)) =>
                  (NoArtifactError(r) /\ answerLog[r][1].at = "veo.fetch.predictions")
            /\ (/\ Rule1(data) /\ ~Rule2(data) /\ ~Rule3(data) /\ ~Rule4(data)
                /\ Len(answerLog[r]) = 1 /\ FetchFailed(r, 1)) =>
                  (NoArtifactError(r) /\ answerLog[r][1].at = "veo.fetch.videos")

\* only predictions[0].gcsUri is present and its fetch was rejected
C29_Witness ==
    \E r \in live :
        /\ ~Rule1(pollData[r]) /\ ~Rule2(pollData[r]) /\ ~Rule3(pollData[r])
        /\ Rule4(pollData[r])
        /\ Len(answerLog[r]) = 1 /\ answerLog[r][1].kind = "throws"
        /\ NoArtifactError(r)

\* the outcomes a Veo call can end with: the six of the poll loop, and the
\* rejection by a check or a failure before the submit
LoopOutcomes == {"artifact", "submit", "poll", "operation", "noartifact", "timeout"}

\* call r was rejected before its submit: no credential, no token, an image
\* payload too short, or a voiceAccent that is not a string
RejectedBeforeSubmit(r) ==
    \/ FailedWith(r, "Veo video generation requires service account or VEO_ACCESS_TOKEN")
    \/ FailedWith(r, "auth failed")
    \/ FailedWith(r, "Invalid reference image data")
    \/ FailedWith(r, "TypeError")

\* the outcomes call r has ended with
VeoOutcomes(r) ==
    {o \in LoopOutcomes \cup {"rejected"} :
        /\ Responded(r)
        /\ CASE o = "artifact" -> Succeeded(r)
             [] o = "submit" ->
                   /\ Len(submitLog[r]) = 1
                   /\ submitLog[r][1].throws \/ SubmitFailure(submitLog[r][1])
                   /\ FailedWith(r, "fetch failed") \/ ProviderSubmitError(r)
             [] o = "poll" ->
                   /\ Len(pollLog[r]) >= 1 /\ LastPoll(r) \in {"throws", "status"}
                   /\ FailedWith(r, "fetch failed") \/ ProviderPollError(r)
             [] o = "operation" -> ProviderOperationError(r)
             [] o = "noartifact" -> NoArtifactError(r)
             [] o = "timeout" -> ProviderTimeout(r)
             [] o = "rejected" -> RejectedBeforeSubmit(r)}

\* C30 as stated: every call dispatched to Veo that has ended has exactly
\* one of the outcomes artifact returned, submit failure, poll failure,
\* operation failure, NoArtifact and timeout.
C30_OneOfSixOutcomes ==
    \A r \in live :
        (provider[r] = "veo" /\ Responded(r)) =>
            Cardinality(VeoOutcomes(r) \cap LoopOutcomes) = 1

\* how far call r is from its response, at most: five steps per poll left,
\* then the two fetches
Rank(r) ==
    LET left == 5 * (maxAttempts - attempts[r])
    IN  CASE pc[r] = "responded" -> 0
          [] pc[r] = "veo.fetch.predictions" -> 1
          [] pc[r] = "veo.fetch.videos" -> 2
          [] pc[r] = "veo.poll" -> left + 8
          [] pc[r] = "veo.sleep" -> left + 4
          [] pc[r] = "veo.loop" -> left + 5
          [] pc[r] = "veo.submit" -> 5 * maxAttempts + 6
          [] pc[r] = "veo.auth" -> 5 * maxAttempts + 7
          [] pc[r] = "veo" -> 5 * maxAttempts + 8
          [] OTHER -> 5 * maxAttempts + 9

\* C30 (amended): a call dispatched to Veo that has not ended has a step to
\* take (its handler runs on, or the one remote call or timer it awaits is
\* in flight), every step of it brings it nearer to its response by a
\* measure that is 0 only at the response, so that it ends when every
\* remote call returns; it issues at most 60 polls; when it has ended it has
\* exactly one of the outcomes artifact returned, submit failure, poll
\* failure, operation failure, NoArtifact, timeout, or rejection before the
\* submit; and after that it issues no sleep, no poll and no other call.
C30_VeoTerminates ==
    /\ [](\A r \in live :
            provider[r] = "veo" =>
                /\ ~Responded(r) => CanStep(r)
                /\ Rank(r) >= 0
                /\ Rank(r) = 0 <=> Responded(r)
                /\ sent[r]["veo.poll"] <= maxAttempts
                /\ Responded(r) =>
                      (Cardinality(VeoOutcomes(r)) = 1 /\ inflight[r] = <<>>))
    /\ [][\A r \in live :
            provider'[r] = "veo" =>
                /\ <<pc[r], attempts[r], inflight[r], sent[r], responses[r]>>
                     # <<pc[r], attempts[r], inflight[r], sent[r], responses[r]>>'
                   => Rank(r)' < Rank(r)
                /\ Responded(r) =>
                      /\ sent'[r] = sent[r]
                      /\ pc'[r] = pc[r]
                      /\ attempts'[r] = attempts[r]]_vars

\* a call that ended with the timeout after its 60th poll
C30_Witness ==
    \E r \in live :
        /\ provider[r] = "veo"
        /\ sent[r]["veo.poll"] = maxAttempts
        /\ Len(pollLog[r]) = maxAttempts
        /\ VeoOutcomes(r) = {"timeout"}

====
